---------------------------- MODULE Spec2Model ----------------------------
(***************************************************************************)
(* A model of the RAINSONET node core: the RELYO ledger, the mempool, the  *)
(* consensus engine and the node runtime that ties them together.          *)
(*                                                                         *)
(* Hashes (transaction ids, proposal ids, state roots) are modelled as     *)
(* injective functions of the hashed content.  Signatures are modelled by  *)
(* a flag that says whether verification against the signer's key passes.  *)
(***************************************************************************)
EXTENDS Integers, Sequences, FiniteSets, TLC

(***************************************************************************)
(* Bounds of the model.                                                    *)
(***************************************************************************)
NumAddresses == 2
MaxAmount == 1
MaxFee == 2
MaxGenesisBalance == 2
MaxExecs == 3
MaxNonce == 2
AmountMax == 1000
PriorityModulus == 1000
MaxPoolSize == 2
MaxPerSender == 2
MaxTimeMs == 1000
MaxExpirySeconds == 1
MillisPerSecond == 1000
NumNodes == 4
NumRoots == 2
MaxVersion == 2
MaxBallots == 5
MaxTracked == 3
MaxSubmits == 3
MinFee == 1
NumSenders == 3
MaxExecutablePool == 4
MaxLimit == 4
MaxBatch == 2
MaxStoreVersion == 2
MaxReads == 2
MaxEdgeExecs == 2
NumThreads == 2
MaxApplyCalls == 2
CleanupWindow == 10
MaxCleanupFinalized == 12
MaxSharedVersion == 3
ChannelCapacity == 2
MaxEvents == 6
MaxEdgePool == 3
NumNetNodes == 2
NumQuorumNodes == 3
CountModulus == 1000

Addresses == 1..NumAddresses

VARIABLES
    \* MemoryStateStore (the account entries of `data`, and `version`)
    data, version,
    \* RelyoLedger
    pending_changes, total_supply, burned, fee_burn_percent,
    \* history of the ledger calls (not program state)
    ledger_last, exec_ok, exec_count, genesis_sum,
    \* Mempool
    transactions, by_sender, by_priority, max_size, max_per_sender,
    \* the mempool's `transactions` lock is held by a call that waits for it
    mempool_blocked,
    \* Timestamp::now(), in milliseconds
    now,
    \* history of the mempool calls (not program state)
    mempool_last,
    \* ValidatorSet
    validators, active_count,
    \* RainsonetConsensus (ProposalStore: proposals, by_version)
    local_validator, proposals, by_version, vote_collections,
    finalized_version, finalized_root, certificates,
    \* the proposals made by create_proposal (history, not program state)
    created,
    \* NodeRuntime: config.consensus.is_validator, state_version, state_root
    rt_is_validator, rt_state_version, rt_state_root,
    \* the number of submit_transaction calls (history, not program state)
    rt_submits,
    \* what the last submit_transaction call returned (history, not program state)
    rt_last,
    \* the last get_executable call and its result (history, not program state)
    executable_last,
    \* PersistentStateStore: the state, meta (version) and history trees, the in-memory
    \* version, and the last apply_batch call (history, not program state)
    ps_state, ps_meta, ps_history, ps_version, ps_last,
    \* MemoryStateStore: the diff log `history`; what a sequential use of the store
    \* went through: the entry set at each version and whether set or delete
    \* was called directly (both history, not program state)
    history, store_snapshots, store_direct,
    \* a thread inside MemoryStateStore::apply_batch: its batch, the index of the
    \* next change to apply (0: no call running), the entry set when the call
    \* began; and the (key, value) pairs a reading thread got during the call
    w_changes, w_next, w_pre, r_reads,
    \* threads calling the mempool: the steps each thread has still to run in its
    \* call, and the locks it holds, in the order it acquired them
    th_pc, th_held,
    \* threads inside apply_batch of one memory store, and the versions returned
    ab_thread, ab_returned,
    \* the event channel of the consensus engine: the queued events, the number of events emitted and the number of the event the subscriber received last
    ev_channel, ev_count, ev_last,
    \* several nodes, each with its own consensus engine: the engines, the proposals and votes that were broadcast, and what each node has received
    net_nodes, net_proposals, net_votes, net_seen

ledgerVars == <<data, version, pending_changes, total_supply, burned,
                fee_burn_percent, ledger_last, exec_ok, exec_count, genesis_sum>>

mempoolVars == <<transactions, by_sender, by_priority, max_size, max_per_sender,
                 mempool_blocked, now, mempool_last>>

consensusVars == <<validators, active_count, local_validator, proposals,
                   by_version, vote_collections, finalized_version,
                   finalized_root, certificates, created>>

runtimeVars == <<rt_is_validator, rt_state_version, rt_state_root, rt_submits, rt_last>>

executableVars == <<executable_last>>

persistentVars == <<ps_state, ps_meta, ps_history, ps_version, ps_last>>

storeVars == <<history, store_snapshots, store_direct>>

concurrentVars == <<w_changes, w_next, w_pre, r_reads>>

threadVars == <<th_pc, th_held>>

writerVars == <<ab_thread, ab_returned>>

eventVars == <<ev_channel, ev_count, ev_last>>

networkVars == <<net_nodes, net_proposals, net_votes, net_seen>>

vars == <<ledgerVars, mempoolVars, consensusVars, runtimeVars, executableVars, persistentVars, storeVars, concurrentVars, threadVars, writerVars, eventVars, networkVars>>

(***************************************************************************)
(* Helpers on finite maps (HashMap / DashMap).                             *)
(***************************************************************************)
Range(f) == {f[x] : x \in DOMAIN f}

EmptyMap == [x \in {} |-> 0]

MapInsert(m, k, v) == [x \in (DOMAIN m) \cup {k} |-> IF x = k THEN v ELSE m[x]]

MapRemove(m, k) == [x \in (DOMAIN m) \ {k} |-> m[x]]

\* no get_executable call was made
InitNoExecutable ==
    executable_last = [limit |-> 0, result |-> <<>>]

\* PersistentStateStore::open on an empty database
InitNoPersistent ==
    /\ ps_state = EmptyMap
    /\ ps_meta = 0
    /\ ps_history = EmptyMap
    /\ ps_version = 0
    /\ ps_last = [result |-> "none", failed |-> "none"]

\* MemoryStateStore::new: no diff recorded
InitStoreLog ==
    /\ history = <<>>
    /\ store_snapshots = <<>>
    /\ store_direct = FALSE

\* no thread is inside the store
InitNoThreads ==
    /\ w_changes = <<>>
    /\ w_next = 0
    /\ w_pre = EmptyMap
    /\ r_reads = <<>>

\* no thread is inside the mempool
InitNoMempoolThreads ==
    /\ th_pc = [t \in {} |-> <<>>]
    /\ th_held = [t \in {} |-> <<>>]

\* no thread is inside a concurrent apply_batch
InitNoWriters ==
    /\ ab_thread = [t \in {} |-> <<>>]
    /\ ab_returned = <<>>

\* the engine has no event channel (event_tx is None)
InitNoEvents ==
    /\ ev_channel = <<>>
    /\ ev_count = 0
    /\ ev_last = 0

\* no network of nodes is running
InitNoNetwork ==
    /\ net_nodes = [n \in {} |-> <<>>]
    /\ net_proposals = {}
    /\ net_votes = {}
    /\ net_seen = [n \in {} |-> <<>>]

\* (end of the idle components)

(***************************************************************************)
(* Amount: saturating u128 arithmetic (AmountMax stands for u128::MAX).    *)
(***************************************************************************)
saturating_add(a, b) == IF a + b > AmountMax THEN AmountMax ELSE a + b

saturating_sub(a, b) == IF a < b THEN 0 ELSE a - b

(***************************************************************************)
(* Ledger                                                                  *)
(***************************************************************************)
AccountNew(balance) == [balance |-> balance, nonce |-> 0]

\* StateStore::get_account: the stored AccountState, None when the key is missing
StoreGetAccount(d, a) == IF a \in DOMAIN d THEN d[a] ELSE AccountNew(0)

get_account_of(pending, d, a) ==
    IF a \in DOMAIN pending THEN pending[a] ELSE StoreGetAccount(d, a)

get_account(a) == get_account_of(pending_changes, data, a)

total_cost(tx) == saturating_add(tx.amount, tx.fee)

\* fee * percent / 100 in 128-bit arithmetic: a product that does not fit
\* wraps (release build) or panics (build with overflow checks)
BurnOverflows(tx, percent) == tx.fee * percent > AmountMax

burn_amount(tx, percent) == ((tx.fee * percent) % (AmountMax + 1)) \div 100

BurnPercents == {0, 50, 100}

Transactions ==
    [from : Addresses, to : Addresses, amount : 0..MaxAmount,
     fee : 0..MaxFee, nonce : 0..MaxNonce]

NoTx == [from |-> 0, to |-> 0, amount |-> 0, fee |-> 0, nonce |-> 0]

NoLast == [op |-> "none", ok |-> TRUE, result |-> "Ok", tx |-> NoTx,
           sender |-> AccountNew(0), recipient |-> AccountNew(0)]

\* (variant: the balance is not checked)
ExecResultNonceOnly(tx, sender) ==
    IF tx.nonce # sender.nonce THEN "InvalidNonce" ELSE "Ok"

\* the result of execute_transaction on the accounts it loaded
ExecResult(tx, sender) ==
    IF tx.nonce # sender.nonce THEN "InvalidNonce"
    ELSE IF sender.balance < total_cost(tx) THEN "InsufficientBalance"
    ELSE "Ok"

SenderAfter(tx, sender) ==
    [balance |-> saturating_sub(sender.balance, total_cost(tx)),
     nonce |-> sender.nonce + 1]

RecipientAfter(tx, recipient) ==
    [recipient EXCEPT !.balance = saturating_add(recipient.balance, tx.amount)]

\* the staging of both accounts: two inserts, the recipient's last
StagePending(pending, tx, sender, recipient) ==
    MapInsert(MapInsert(pending, tx.from, SenderAfter(tx, sender)),
              tx.to, RecipientAfter(tx, recipient))

BurnedAfter(b, tx, percent) ==
    IF burn_amount(tx, percent) > 0
    THEN saturating_add(b, burn_amount(tx, percent))
    ELSE b

set_balance(a, balance) ==
    /\ exec_count = 0
    /\ a \notin DOMAIN data
    /\ data' = MapInsert(data, a, AccountNew(balance))
    /\ total_supply' = saturating_add(total_supply, balance)
    /\ genesis_sum' = genesis_sum + balance
    /\ ledger_last' = [NoLast EXCEPT !.op = "set_balance"]
    /\ UNCHANGED <<version, pending_changes, burned, fee_burn_percent,
                   exec_ok, exec_count>>

\* the results a call can have: the overflowing product panics in one build
ExecOutcomes(tx, sender, percent) ==
    IF ExecResult(tx, sender) = "Ok" /\ BurnOverflows(tx, percent)
    THEN {"Ok", "Panic"}
    ELSE {ExecResult(tx, sender)}

execute_transaction(tx) ==
    LET sender == get_account(tx.from)
        recipient == get_account(tx.to)
    IN  \E res \in ExecOutcomes(tx, sender, fee_burn_percent) :
        /\ exec_count < MaxExecs
        /\ exec_count' = exec_count + 1
        /\ ledger_last' = [op |-> "execute", ok |-> (res = "Ok"),
                           result |-> res, tx |-> tx,
                           sender |-> sender, recipient |-> recipient]
        /\ IF res = "Ok"
           THEN /\ pending_changes' =
                       StagePending(pending_changes, tx, sender, recipient)
                /\ burned' = BurnedAfter(burned, tx, fee_burn_percent)
                /\ exec_ok' = [exec_ok EXCEPT ![tx.from] = @ + 1]
           ELSE UNCHANGED <<pending_changes, burned, exec_ok>>
        /\ UNCHANGED <<data, version, total_supply, fee_burn_percent, genesis_sum>>

\* the committed entries after the pending buffer is written through
CommitData(d, pending) ==
    [a \in (DOMAIN d) \cup (DOMAIN pending) |->
        IF a \in DOMAIN pending THEN pending[a] ELSE d[a]]

commit ==
    /\ data' = CommitData(data, pending_changes)
    /\ pending_changes' = EmptyMap
    /\ exec_ok' = [a \in Addresses |-> 0]
    /\ ledger_last' = IF ledger_last.op = "execute"
                      THEN [ledger_last EXCEPT !.op = "commit"]
                      ELSE [NoLast EXCEPT !.op = "commit"]
    /\ UNCHANGED <<version, total_supply, burned, fee_burn_percent,
                   exec_count, genesis_sum>>

rollback ==
    /\ pending_changes' = EmptyMap
    /\ exec_ok' = [a \in Addresses |-> 0]
    /\ ledger_last' = [NoLast EXCEPT !.op = "rollback"]
    /\ UNCHANGED <<data, version, total_supply, burned, fee_burn_percent,
                   exec_count, genesis_sum>>

\* RelyoConfig::default
DefaultBurnPercent == 50

InitLedger ==
    /\ data = EmptyMap
    /\ version = 0
    /\ pending_changes = EmptyMap
    /\ total_supply = 0
    /\ burned = 0
    /\ fee_burn_percent \in BurnPercents
    /\ ledger_last = NoLast
    /\ exec_ok = [a \in Addresses |-> 0]
    /\ exec_count = 0
    /\ genesis_sum = 0

(***************************************************************************)
(* Mempool                                                                 *)
(***************************************************************************)
\* the transaction id: a hash, modelled as an injective code of the content
TxId(tx) ==
    ((((tx.from * (NumAddresses + 1) + tx.to) * (MaxAmount + 1) + tx.amount)
        * (MaxFee + 1) + tx.fee) * (MaxNonce + 1)) + tx.nonce

\* MempoolEntry::new: the priority is the fee cast to u64
\* (PriorityModulus stands for 2^64)
MempoolEntryNew(tx, t) ==
    [tx |-> tx, received_at |-> t, priority |-> tx.fee % PriorityModulus]

\* the (priority, id) keys of the BTreeMap compare lexicographically
KeyLess(k1, k2) == k1[1] < k2[1] \/ (k1[1] = k2[1] /\ k1[2] < k2[2])

\* by_priority.iter().next(): the first key of the BTreeMap
FirstKey(keys) == CHOOSE k \in keys : \A o \in keys : o = k \/ KeyLess(k, o)

\* by_priority.iter().rev(): the last key of the BTreeMap
LastKey(keys) == CHOOSE k \in keys : \A o \in keys : o = k \/ KeyLess(o, k)

\* the first n keys of by_priority in descending order
RECURSIVE DescendingKeys(_, _)
DescendingKeys(keys, n) ==
    IF n = 0 \/ keys = {} THEN <<>>
    ELSE <<LastKey(keys)>> \o DescendingKeys(keys \ {LastKey(keys)}, n - 1)

\* Mempool::get_highest_priority: the entries the first `limit` keys name
get_highest_priority(txs, bp, limit) ==
    LET keys == DescendingKeys(bp, limit)
        found == SelectSeq(keys, LAMBDA k : k[2] \in DOMAIN txs)
    IN  [i \in 1..Len(found) |-> txs[found[i][2]].tx]

EntriesOfSender(txs, sender) == {id \in DOMAIN txs : txs[id].tx.from = sender}

SenderCount(bs, sender) ==
    IF sender \in DOMAIN bs THEN Cardinality(bs[sender]) ELSE 0

\* the three indexes without transaction `id`
RemoveFromSender(bs, sender, id) ==
    IF sender \notin DOMAIN bs THEN bs
    ELSE IF bs[sender] \ {id} = {} THEN MapRemove(bs, sender)
    ELSE [bs EXCEPT ![sender] = @ \ {id}]

RECURSIVE RemoveAllFromSender(_, _, _)
RemoveAllFromSender(bs, txs, ids) ==
    IF ids = {} THEN bs
    ELSE LET id == CHOOSE x \in ids : TRUE
         IN  RemoveAllFromSender(RemoveFromSender(bs, txs[id].tx.from, id),
                                 txs, ids \ {id})

RemoveAllFromPriority(bp, txs, ids) ==
    bp \ {<<txs[id].priority, id>> : id \in ids}

RemoveAllFromTransactions(txs, ids) ==
    [id \in (DOMAIN txs) \ ids |-> txs[id]]

\* (variant: the capacity is checked before the duplicate)
AddOutcomeCapacityFirst(txs, bs, bp, size, per_sender, tx) ==
    IF Cardinality(DOMAIN txs) >= size
    THEN (IF bp # {} THEN "blocked" ELSE "full")
    ELSE IF TxId(tx) \in DOMAIN txs THEN "duplicate"
    ELSE IF tx.from \in DOMAIN bs /\ Cardinality(bs[tx.from]) >= per_sender
         THEN "sender"
    ELSE "added"

\* what Mempool::add does with a transaction, given the indexes:
\*   "duplicate"  the id is already there (returns false)
\*   "blocked"    the pool is full and an entry can be evicted: add holds the
\*                write lock of `transactions` and evict_lowest_priority calls
\*                remove, which takes the same lock again and never gets it
\*   "full"       the pool is full and by_priority is empty (returns false)
\*   "sender"     the sender has max_per_sender entries (returns false)
\*   "added"      the transaction is inserted (returns true)
\* the indexes as a step of add finds them, with whether the step before
\* returned and whether the call may go on
Indexes(txs, bs, bp, returned, proceed) ==
    [transactions |-> txs, by_sender |-> bs, by_priority |-> bp,
     returned |-> returned, proceed |-> proceed]

\* (variant: the lock on transactions is reentrant and the eviction is done)
EvictReentrant(txs, bs, bp) ==
    IF bp = {} THEN Indexes(txs, bs, bp, TRUE, FALSE)
    ELSE LET ids == {FirstKey(bp)[2]} \cap DOMAIN txs
         IN  Indexes(RemoveAllFromTransactions(txs, ids),
                     RemoveAllFromSender(bs, txs, ids),
                     RemoveAllFromPriority(bp, txs, ids), TRUE, TRUE)

\* evict_lowest_priority as add calls it, holding transactions.write(): it
\* returns false on an empty by_priority; with an entry to evict it calls
\* remove, which waits for the lock add holds, and does not return
EvictLowestPriority(txs, bs, bp) == Indexes(txs, bs, bp, bp = {}, FALSE)

\* add's pool size check, with the eviction it tries on a full pool
AfterSizeCheck(txs, bs, bp, size) ==
    IF Cardinality(DOMAIN txs) >= size
    THEN EvictLowestPriority(txs, bs, bp)
    ELSE Indexes(txs, bs, bp, TRUE, TRUE)

AddOutcome(txs, bs, bp, size, per_sender, tx) ==
    IF TxId(tx) \in DOMAIN txs THEN "duplicate"
    ELSE LET ix == AfterSizeCheck(txs, bs, bp, size)
         IN  IF ~ix.returned THEN "blocked"
             ELSE IF ~ix.proceed THEN "full"
             ELSE IF /\ tx.from \in DOMAIN ix.by_sender
                     /\ Cardinality(ix.by_sender[tx.from]) >= per_sender
                  THEN "sender"
             ELSE "added"

MempoolInputs == {tx \in Transactions : tx.amount = 0 /\ tx.to = 1}

NoMempoolLast == [op |-> "none", tx |-> NoTx, result |-> "none", before |-> EmptyMap]

mempool_add(tx) ==
    LET outcome == AddOutcome(transactions, by_sender, by_priority,
                              max_size, max_per_sender, tx)
        ix == AfterSizeCheck(transactions, by_sender, by_priority, max_size)
        id == TxId(tx)
    IN  /\ ~mempool_blocked
        /\ mempool_last' = [op |-> "add", tx |-> tx, result |-> outcome,
                            before |-> transactions]
        /\ mempool_blocked' = (outcome = "blocked")
        /\ IF outcome = "added"
           THEN /\ transactions' =
                       MapInsert(ix.transactions, id, MempoolEntryNew(tx, now))
                /\ by_sender' =
                       MapInsert(ix.by_sender, tx.from,
                                 (IF tx.from \in DOMAIN ix.by_sender
                                  THEN ix.by_sender[tx.from] ELSE {}) \cup {id})
                /\ by_priority' =
                       ix.by_priority \cup {<<tx.fee % PriorityModulus, id>>}
           ELSE IF outcome = "sender"
           THEN /\ transactions' = ix.transactions
                /\ by_sender' = ix.by_sender
                /\ by_priority' = ix.by_priority
           ELSE UNCHANGED <<transactions, by_sender, by_priority>>
        /\ UNCHANGED <<max_size, max_per_sender, now>>

mempool_remove(id) ==
    LET ids == {id} \cap DOMAIN transactions
    IN  /\ ~mempool_blocked
        /\ transactions' = RemoveAllFromTransactions(transactions, ids)
        /\ by_sender' = RemoveAllFromSender(by_sender, transactions, ids)
        /\ by_priority' = RemoveAllFromPriority(by_priority, transactions, ids)
        /\ mempool_last' = [NoMempoolLast EXCEPT !.op = "remove",
                                                 !.before = transactions]
        /\ UNCHANGED <<max_size, max_per_sender, mempool_blocked, now>>

Expired(txs, t, expiry_seconds) ==
    {id \in DOMAIN txs :
        t - txs[id].received_at > expiry_seconds * MillisPerSecond}

remove_expired(expiry_seconds) ==
    LET ids == Expired(transactions, now, expiry_seconds)
    IN  /\ ~mempool_blocked
        /\ transactions' = RemoveAllFromTransactions(transactions, ids)
        /\ by_sender' = RemoveAllFromSender(by_sender, transactions, ids)
        /\ by_priority' = RemoveAllFromPriority(by_priority, transactions, ids)
        /\ mempool_last' = [NoMempoolLast EXCEPT !.op = "remove_expired",
                                                 !.before = transactions]
        /\ UNCHANGED <<max_size, max_per_sender, mempool_blocked, now>>

mempool_clear ==
    /\ ~mempool_blocked
    /\ transactions' = EmptyMap
    /\ by_sender' = EmptyMap
    /\ by_priority' = {}
    /\ mempool_last' = [NoMempoolLast EXCEPT !.op = "clear",
                                             !.before = transactions]
    /\ UNCHANGED <<max_size, max_per_sender, mempool_blocked, now>>

\* the clock moves on
Tick ==
    /\ now < MaxTimeMs
    /\ now' = now + MillisPerSecond + 1
    /\ UNCHANGED <<transactions, by_sender, by_priority, max_size,
                   max_per_sender, mempool_blocked, mempool_last>>

InitMempoolWith(size, per_sender) ==
    /\ transactions = EmptyMap
    /\ by_sender = EmptyMap
    /\ by_priority = {}
    /\ max_size = size
    /\ max_per_sender = per_sender
    /\ mempool_blocked = FALSE
    /\ now = 0
    /\ mempool_last = NoMempoolLast


(***************************************************************************)
(* Validator set                                                           *)
(***************************************************************************)
Nodes == 1..NumNodes

\* Option::None for the local validator
NoNode == 0

\* (variant: a known validator counts whether it is active or not)
is_validator_known(vs, node_id) == node_id \in DOMAIN vs

is_validator(vs, node_id) == node_id \in DOMAIN vs /\ vs[node_id].active

\* ValidatorSet::with_validators: the map and the count of active entries
WithValidators(infos) == infos

CountActive(infos) == Cardinality({n \in DOMAIN infos : infos[n].active})

required_votes(count) == ((count * 2) \div 3) + 1

\* verify_signature: the signer's key must be known and the signature good
verify_signature(vs, node_id, sig_ok) == node_id \in DOMAIN vs /\ sig_ok

(***************************************************************************)
(* Consensus engine                                                        *)
(***************************************************************************)
Roots == 1..NumRoots

\* Hash::ZERO
ZeroRoot == 0

\* the proposal id: a hash of proposer, version, roots and timestamp,
\* injective; new_root stands for the roots and the timestamp
ProposalId(p) == <<p.proposer, p.state_version, p.new_root>>

Proposals == [proposer : Nodes, state_version : 1..MaxVersion, new_root : Roots]

ProposalIds == {ProposalId(p) : p \in Proposals}

\* the state changes handed in with a proposal: the root they lead to stands
\* for them
ChangesOf(p) == <<p.new_root>>

TrackedProposalNew(p) ==
    [proposal |-> p, status |-> "Pending", votes_for |-> 0,
     votes_against |-> 0, voters |-> EmptyMap, state_changes |-> ChangesOf(p)]

\* ProposalStore::get_approved_changes: Some(changes) is <<changes>>
get_approved_changes(props, id) ==
    IF id \in DOMAIN props /\ props[id].status = "Approved"
    THEN <<props[id].state_changes>>
    ELSE <<>>

get_finalized_changes(id) == get_approved_changes(proposals, id)

\* TrackedProposal::add_vote
TrackedAddVote(tp, voter, approve) ==
    IF voter \in DOMAIN tp.voters THEN tp
    ELSE [tp EXCEPT !.voters = MapInsert(@, voter, approve),
                    !.votes_for = IF approve THEN @ + 1 ELSE @,
                    !.votes_against = IF approve THEN @ ELSE @ + 1]

\* ProposalStore::add_vote
StoreAddVote(props, id, voter, approve) ==
    IF id \in DOMAIN props
    THEN [props EXCEPT ![id] = TrackedAddVote(@, voter, approve)]
    ELSE props

VoteCollectionNew == [votes |-> <<>>, votes_for |-> 0, votes_against |-> 0]

\* (variant: no voter counts as having voted)
HasVotedNever(c, voter) == FALSE

HasVoted(c, voter) == \E i \in 1..Len(c.votes) : c.votes[i].voter = voter

\* VoteCollection::add, for a vote that is no duplicate
CollectionAdd(c, vote) ==
    [votes |-> Append(c.votes, [voter |-> vote.voter, approve |-> vote.approve]),
     votes_for |-> IF vote.approve THEN c.votes_for + 1 ELSE c.votes_for,
     votes_against |-> IF vote.approve THEN c.votes_against ELSE c.votes_against + 1]

\* a quorum rule that counts every vote, approve or not
has_consensus_any_vote(c, required) == Len(c.votes) >= required

has_consensus(c, required) == c.votes_for >= required

is_rejected(c, total_validators, required) ==
    c.votes_against > total_validators - required

\* the engine's mutable fields, as one record
EngineState ==
    [proposals |-> proposals, by_version |-> by_version,
     vote_collections |-> vote_collections,
     finalized_version |-> finalized_version,
     finalized_root |-> finalized_root,
     certificates |-> certificates, result |-> "Ok", emitted |-> <<>>]

\* emit_event: the events a call emits, in order
Emit(st, event) == [st EXCEPT !.emitted = Append(@, event)]

FinalityCertificateNew(id, p, votes) ==
    [proposal_id |-> id, state_version |-> p.state_version,
     state_root |-> p.new_root, votes |-> votes]

finalize_proposal(st, id) ==
    IF id \notin DOMAIN st.proposals
    THEN [st EXCEPT !.result = "ProposalRejected"]
    ELSE LET p == st.proposals[id].proposal
             votes == IF id \in DOMAIN st.vote_collections
                      THEN st.vote_collections[id].votes ELSE <<>>
         IN  Emit([st EXCEPT !.finalized_version = p.state_version,
                             !.finalized_root = p.new_root,
                             !.certificates =
                                 Append(@, FinalityCertificateNew(id, p, votes))],
                  <<"StateFinalized", p.state_version, p.new_root>>)

\* receive_vote on engine state st
ReceiveVote(st, vs, count, vote, sig_ok) ==
    IF ~is_validator(vs, vote.voter) THEN [st EXCEPT !.result = "NotAValidator"]
    ELSE IF ~verify_signature(vs, vote.voter, sig_ok)
         THEN [st EXCEPT !.result = "InvalidSignature"]
    ELSE IF vote.proposal_id \notin DOMAIN st.vote_collections THEN st
    ELSE IF HasVoted(st.vote_collections[vote.proposal_id], vote.voter) THEN st
    ELSE LET id == vote.proposal_id
             c == CollectionAdd(st.vote_collections[id], vote)
             st2 == Emit([st EXCEPT !.vote_collections[id] = c],
                         <<"VoteCast", id, vote.voter, vote.approve>>)
         IN  IF has_consensus(c, required_votes(count))
             THEN finalize_proposal(st2, id)
             ELSE IF is_rejected(c, count, required_votes(count))
             THEN Emit([st2 EXCEPT !.proposals =
                            StoreAddVote(@, id, vote.voter, vote.approve)],
                       <<"ProposalRejected", id>>)
             ELSE st2

\* ProposalStore::add together with the fresh vote collection
StoreProposal(st, p) ==
    [st EXCEPT !.proposals = MapInsert(@, ProposalId(p), TrackedProposalNew(p)),
               !.by_version = MapInsert(@, p.state_version, ProposalId(p)),
               !.vote_collections = MapInsert(@, ProposalId(p), VoteCollectionNew)]

\* vote_on_proposal on engine state st
VoteOnProposal(st, vs, count, local, id, approve) ==
    IF local = NoNode THEN [st EXCEPT !.result = "NotAValidator"]
    ELSE IF id \notin DOMAIN st.proposals
         THEN [st EXCEPT !.result = "ProposalRejected"]
    ELSE ReceiveVote(st, vs, count,
                     [proposal_id |-> id, voter |-> local, approve |-> approve],
                     TRUE)

\* receive_proposal on engine state st
ReceiveProposal(st, vs, count, local, p, sig_ok) ==
    IF ~is_validator(vs, p.proposer) THEN [st EXCEPT !.result = "NotAValidator"]
    ELSE IF ~verify_signature(vs, p.proposer, sig_ok)
         THEN [st EXCEPT !.result = "InvalidSignature"]
    ELSE IF p.state_version # st.finalized_version + 1
         THEN [st EXCEPT !.result = "StateVersionMismatch"]
    ELSE IF local # NoNode
         THEN VoteOnProposal(Emit(StoreProposal(st, p),
                                  <<"ProposalReceived", ProposalId(p)>>),
                             vs, count, local, ProposalId(p), TRUE)
    ELSE Emit(StoreProposal(st, p), <<"ProposalReceived", ProposalId(p)>>)

\* create_proposal on engine state st
CreateProposal(st, local, new_root) ==
    IF local = NoNode THEN [st EXCEPT !.result = "NotAValidator"]
    ELSE Emit(StoreProposal(st, [proposer |-> local,
                                 state_version |-> st.finalized_version + 1,
                                 new_root |-> new_root]),
              <<"ProposalCreated",
                <<local, st.finalized_version + 1, new_root>>>>)

\* the engine's fields take the values of record st
SetEngine(st) ==
    /\ proposals' = st.proposals
    /\ by_version' = st.by_version
    /\ vote_collections' = st.vote_collections
    /\ finalized_version' = st.finalized_version
    /\ finalized_root' = st.finalized_root
    /\ certificates' = st.certificates

\* the model tracks at most MaxTracked proposals, and only while validators
\* times proposals is at most MaxBallots
MayTrack(id) ==
    \/ id \in DOMAIN proposals
    \/ /\ Cardinality(DOMAIN proposals) < MaxTracked
       /\ active_count * (Cardinality(DOMAIN proposals) + 1) <= MaxBallots

create_proposal(new_root) ==
    LET st == CreateProposal(EngineState, local_validator, new_root)
        id == <<local_validator, finalized_version + 1, new_root>>
    IN  /\ finalized_version < MaxVersion
        /\ MayTrack(id)
        /\ SetEngine(st)
        /\ created' = IF st.result = "Ok" THEN created \cup {id} ELSE created
        /\ UNCHANGED <<validators, active_count, local_validator>>

receive_proposal(p, sig_ok) ==
    LET st == ReceiveProposal(EngineState, validators, active_count,
                              local_validator, p, sig_ok)
    IN  /\ MayTrack(ProposalId(p))
        /\ SetEngine(st)
        /\ UNCHANGED <<validators, active_count, local_validator, created>>

vote_on_proposal(id, approve) ==
    LET st == VoteOnProposal(EngineState, validators, active_count,
                             local_validator, id, approve)
    IN  /\ SetEngine(st)
        /\ UNCHANGED <<validators, active_count, local_validator, created>>

receive_vote(vote, sig_ok) ==
    LET st == ReceiveVote(EngineState, validators, active_count, vote, sig_ok)
    IN  /\ SetEngine(st)
        /\ UNCHANGED <<validators, active_count, local_validator, created>>

\* ValidatorSet::add_validator: the counter moves only for an active
\* validator whose node id is not in the set yet; the entry is replaced
add_validator(node_id, active) ==
    /\ active_count' = IF active /\ node_id \notin DOMAIN validators
                       THEN (active_count + 1) % CountModulus
                       ELSE active_count
    /\ validators' = MapInsert(validators, node_id, [active |-> active])
    /\ UNCHANGED <<local_validator, proposals, by_version, vote_collections,
                   finalized_version, finalized_root, certificates, created>>

\* the outcomes of `count -= 1` on a usize: with overflow checks the
\* subtraction from 0 panics and the counter stays, without them it wraps
Decremented(count) ==
    IF count > 0 THEN {count - 1} ELSE {0, CountModulus - 1}

\* ValidatorSet::remove_validator
remove_validator(node_id) ==
    /\ validators' = MapRemove(validators, node_id)
    /\ active_count' \in IF node_id \in DOMAIN validators /\ validators[node_id].active
                          THEN Decremented(active_count)
                          ELSE {active_count}
    /\ UNCHANGED <<local_validator, proposals, by_version, vote_collections,
                   finalized_version, finalized_root, certificates, created>>

\* ProposalStore::cleanup: the versions of by_version below before_version
\* go, each with the one proposal by_version names for it
StoreCleanup(st, before_version) ==
    LET old_versions == {v \in DOMAIN st.by_version : v < before_version}
        ids == {st.by_version[v] : v \in old_versions}
    IN  [st EXCEPT !.proposals = [id \in (DOMAIN @) \ ids |-> @[id]],
                   !.by_version = [v \in (DOMAIN @) \ old_versions |-> @[v]]]

\* RainsonetConsensus::cleanup on engine state st
Cleanup(st) ==
    IF st.finalized_version > CleanupWindow
    THEN StoreCleanup(st, st.finalized_version - CleanupWindow)
    ELSE st

cleanup ==
    /\ SetEngine(Cleanup(EngineState))
    /\ UNCHANGED <<validators, active_count, local_validator, created>>

\* (variant: a channel that hands out the newest event first)
TrySendFront(channel, event) ==
    IF Len(channel) < ChannelCapacity THEN <<event>> \o channel ELSE channel

\* mpsc::Sender::try_send: the event is queued if the channel has room and
\* dropped if not (the Err is thrown away); the caller goes on either way
\* (ChannelCapacity stands for the 100 of create_consensus_channel)
TrySend(channel, event) ==
    IF Len(channel) < ChannelCapacity THEN Append(channel, event) ELSE channel

\* emit_event for the events of one call, in the order of emission; event k of
\* the call is the (count + k)-th event the engine emits
RECURSIVE EmitEvents(_, _, _, _)
EmitEvents(channel, events, k, count) ==
    IF k > Len(events) THEN channel
    ELSE EmitEvents(TrySend(channel, [number |-> count + k, event |-> events[k]]),
                    events, k + 1, count)

\* a call on an engine with an event channel: the engine's fields take the
\* values of st and the events of the call go to the channel
engine_call(st) ==
    /\ ev_count + Len(st.emitted) <= MaxEvents
    /\ SetEngine(st)
    /\ ev_channel' = EmitEvents(ev_channel, st.emitted, 1, ev_count)
    /\ ev_count' = ev_count + Len(st.emitted)
    /\ UNCHANGED <<validators, active_count, local_validator, created, ev_last>>

\* the subscriber takes the next event from the channel
subscriber_recv ==
    /\ ev_channel # <<>>
    /\ ev_last' = Head(ev_channel).number
    /\ ev_channel' = Tail(ev_channel)
    /\ UNCHANGED <<consensusVars, ev_count>>

\* the proposals a vote can name: the tracked ones and one that is unknown
VoteTargets ==
    DOMAIN vote_collections \cup
        (IF ProposalIds \subseteq DOMAIN vote_collections THEN {}
         ELSE {CHOOSE id \in ProposalIds : id \notin DOMAIN vote_collections})

Votes == [proposal_id : VoteTargets, voter : Nodes, approve : BOOLEAN]

\* the validator sets the engine is built with: validators 1..k, of which
\* the last one may be inactive
ValidatorInfos ==
    {infos \in UNION {[1..k -> [active : BOOLEAN]] : k \in 1..NumNodes} :
        \A n \in DOMAIN infos : n + 1 \in DOMAIN infos => infos[n].active}

InitConsensusWith(infos, local) ==
    /\ validators = WithValidators(infos)
    /\ active_count = CountActive(infos)
    /\ local_validator = local
    /\ proposals = EmptyMap
    /\ by_version = EmptyMap
    /\ vote_collections = EmptyMap
    /\ finalized_version = 0
    /\ finalized_root = ZeroRoot
    /\ certificates = <<>>
    /\ created = {}

(***************************************************************************)
(* Node runtime                                                            *)
(***************************************************************************)
\* the node id of the runtime's key pair
RuntimeNode == 1

\* create_mempool(10000, 100)
RuntimeMaxSize == 10000
RuntimeMaxPerSender == 100

\* try_propose_block asks the mempool for at most this many transactions
ExecutableLimit == 100

\* the injective sequences over a finite set
Orderings(S) ==
    {f \in [1..Cardinality(S) -> S] :
        \A i, j \in 1..Cardinality(S) : f[i] = f[j] => i = j}

\* one sender's entries sorted by nonce (equal nonces in any order)
SortedByNonce(txs, ids) ==
    {f \in Orderings(ids) :
        \A i, j \in 1..Cardinality(ids) :
            i < j => txs[f[i]].tx.nonce <= txs[f[j]].tx.nonce}

\* a drain that stays with one sender until its list is empty
RECURSIVE RoundRobinNoAdvance(_, _, _, _)
RoundRobinNoAdvance(rr, i, result, limit) ==
    IF Len(result) >= limit \/ rr = <<>> THEN result
    ELSE IF Tail(rr[1]) = <<>>
         THEN RoundRobinNoAdvance(Tail(rr), i, Append(result, Head(rr[1])), limit)
         ELSE RoundRobinNoAdvance([rr EXCEPT ![1] = Tail(rr[1])], i,
                                  Append(result, Head(rr[1])), limit)

\* the round robin of get_executable over the senders' lists rr, at index i
RECURSIVE RoundRobin(_, _, _, _)
RoundRobin(rr, i, result, limit) ==
    IF Len(result) >= limit \/ rr = <<>> THEN result
    ELSE LET taken == Append(result, Head(rr[i]))
             rest == Tail(rr[i])
         IN  IF rest = <<>>
             THEN LET rr2 == [k \in 1..(Len(rr) - 1) |->
                                 IF k < i THEN rr[k] ELSE rr[k + 1]]
                  IN  RoundRobin(rr2,
                                 IF rr2 = <<>> THEN i
                                 ELSE ((i - 1) % Len(rr2)) + 1,
                                 taken, limit)
             ELSE RoundRobin([rr EXCEPT ![i] = rest], (i % Len(rr)) + 1,
                             taken, limit)

\* the results get_executable can return: the HashMap iteration orders are
\* not fixed, so every order of the senders and of equal nonces is possible
get_executable(txs, limit) ==
    LET senders == {txs[id].tx.from : id \in DOMAIN txs}
        lists == UNION {SortedByNonce(txs, EntriesOfSender(txs, a)) :
                           a \in senders}
        choices == {ch \in [senders -> lists] :
                       \A a \in senders :
                           ch[a] \in SortedByNonce(txs, EntriesOfSender(txs, a))}
    IN  {RoundRobin([k \in 1..Cardinality(senders) |-> ch[order[k]]],
                    1, <<>>, limit) :
            order \in Orderings(senders), ch \in choices}

\* a call of get_executable on the mempool, with its result recorded
get_executable_call(limit) ==
    /\ ~mempool_blocked
    /\ \E result \in get_executable(transactions, limit) :
           executable_last' = [limit |-> limit, result |-> result]
    /\ UNCHANGED mempoolVars

\* the transactions a mempool can hold: any sender, two fees and two nonces
ExecutableInputs ==
    [from : 1..NumSenders, to : {1}, amount : {0}, fee : {0, MaxFee},
     nonce : {0, MaxNonce}]

RECURSIVE SubsetsUpTo(_, _)
SubsetsUpTo(S, k) ==
    IF k = 0 THEN {{}}
    ELSE LET smaller == SubsetsUpTo(S, k - 1)
         IN  smaller \cup {T \cup {x} : T \in smaller, x \in S}

\* the mempool after the transactions of S were added at time 0
PoolTransactions(S) ==
    [id \in {TxId(tx) : tx \in S} |->
        MempoolEntryNew(CHOOSE tx \in S : TxId(tx) = id, 0)]

PoolBySender(S) ==
    [a \in {tx.from : tx \in S} |-> {TxId(tx) : tx \in {t \in S : t.from = a}}]

PoolByPriority(S) == {<<tx.fee % PriorityModulus, TxId(tx)>> : tx \in S}

InitMempoolHolding(S) ==
    /\ transactions = PoolTransactions(S)
    /\ by_sender = PoolBySender(S)
    /\ by_priority = PoolByPriority(S)
    /\ max_size = RuntimeMaxSize
    /\ max_per_sender = RuntimeMaxPerSender
    /\ mempool_blocked = FALSE
    /\ now = 0
    /\ mempool_last = NoMempoolLast

\* the loop of try_propose_block over the batch, from position k on:
\* acc holds the pending buffer, the burned total, the collected changes and
\* ids, and the ids of the transactions that failed
RECURSIVE ExecuteBatch(_, _, _, _, _, _)
ExecuteBatch(batch, k, txs, d, percent, acc) ==
    IF k > Len(batch) THEN acc
    ELSE LET tx == txs[batch[k]].tx
             sender == get_account_of(acc.pending, d, tx.from)
             recipient == get_account_of(acc.pending, d, tx.to)
         IN  IF ExecResult(tx, sender) = "Ok"
             THEN ExecuteBatch(batch, k + 1, txs, d, percent,
                      [pending |-> StagePending(acc.pending, tx, sender, recipient),
                       burned |-> BurnedAfter(acc.burned, tx, percent),
                       changes |-> acc.changes \o
                                   << <<tx.from, SenderAfter(tx, sender)>>,
                                      <<tx.to, RecipientAfter(tx, recipient)>> >>,
                       tx_ids |-> Append(acc.tx_ids, batch[k]),
                       failed |-> acc.failed])
             ELSE ExecuteBatch(batch, k + 1, txs, d, percent,
                      [acc EXCEPT !.failed = @ \cup {batch[k]}])

\* MemoryStateStore::apply_batch on the account entries
\* (a change <<key, value>> is a Set, a change <<key>> is a Delete)
RECURSIVE ApplyChanges(_, _)
ApplyChanges(d, changes) ==
    IF changes = <<>> THEN d
    ELSE ApplyChanges(IF Len(Head(changes)) = 2
                      THEN MapInsert(d, Head(changes)[1], Head(changes)[2])
                      ELSE MapRemove(d, Head(changes)[1]),
                      Tail(changes))

\* the StateDiff that apply_batch builds from the changes
StateDiffNew(from_version, to_version) ==
    [from_version |-> from_version, to_version |-> to_version,
     added |-> EmptyMap, removed |-> <<>>]

RECURSIVE DiffOfChanges(_, _)
DiffOfChanges(diff, changes) ==
    IF changes = <<>> THEN diff
    ELSE DiffOfChanges(IF Len(Head(changes)) = 2
                       THEN [diff EXCEPT !.added =
                                MapInsert(@, Head(changes)[1], Head(changes)[2])]
                       ELSE [diff EXCEPT !.removed = Append(@, Head(changes)[1])],
                       Tail(changes))

\* the keys and values of the store: account keys and account states
StoreKeys == Addresses

StoreValues == {AccountNew(b) : b \in 1..MaxAmount}

StoreOps == {<<k, v>> : k \in StoreKeys, v \in StoreValues} \cup
            {<<k>> : k \in StoreKeys}

Batches == UNION {[1..n -> StoreOps] : n \in 0..MaxBatch}

(***************************************************************************)
(* Memory state store                                                      *)
(***************************************************************************)
\* get: Some(value) is <<value>>, None is <<>>
Lookup(d, key) == IF key \in DOMAIN d THEN <<d[key]>> ELSE <<>>

\* the entry sets a store can hold
StoreStates == UNION {[S -> StoreValues] : S \in SUBSET StoreKeys}

store_set(key, value) ==
    /\ data' = MapInsert(data, key, value)
    /\ store_direct' = TRUE
    /\ UNCHANGED <<version, history, store_snapshots>>

store_delete(key) ==
    /\ data' = MapRemove(data, key)
    /\ store_direct' = TRUE
    /\ UNCHANGED <<version, history, store_snapshots>>

\* apply_batch called with no other thread in the store
store_apply_batch(changes) ==
    /\ version < MaxStoreVersion
    /\ data' = ApplyChanges(data, changes)
    /\ version' = version + 1
    /\ history' = Append(history,
                     DiffOfChanges(StateDiffNew(version, version + 1), changes))
    /\ store_snapshots' = Append(store_snapshots, data')
    /\ UNCHANGED store_direct

\* diff(from_version) over diff log hist, from its k-th diff on
RECURSIVE MergeHistory(_, _, _, _)
MergeHistory(combined, hist, k, from_version) ==
    IF k > Len(hist) THEN combined
    ELSE MergeHistory(
             IF hist[k].from_version >= from_version
             THEN [combined EXCEPT
                      !.added = [key \in DOMAIN @ \cup DOMAIN hist[k].added |->
                                    IF key \in DOMAIN hist[k].added
                                    THEN hist[k].added[key] ELSE @[key]],
                      !.removed = @ \o hist[k].removed]
             ELSE combined,
             hist, k + 1, from_version)

diff(hist, from_version, current_version) ==
    MergeHistory(StateDiffNew(from_version, current_version), hist, 1,
                 from_version)

\* apply_batch run by one thread while another thread reads: the calls on the
\* DashMap are the steps (the version write and the push to the diff log,
\* which no get reads, are one step)
apply_batch_begin(changes) ==
    /\ w_next = 0
    /\ version < MaxStoreVersion
    /\ w_changes' = changes
    /\ w_next' = 1
    /\ w_pre' = data
    /\ r_reads' = <<>>
    /\ UNCHANGED <<data, version, history>>

apply_batch_change ==
    /\ w_next \in 1..Len(w_changes)
    /\ data' = ApplyChanges(data, <<w_changes[w_next]>>)
    /\ w_next' = w_next + 1
    /\ UNCHANGED <<version, history, w_changes, w_pre, r_reads>>

apply_batch_end ==
    /\ w_next = Len(w_changes) + 1
    /\ version' = version + 1
    /\ history' = Append(history,
                     DiffOfChanges(StateDiffNew(version, version + 1), w_changes))
    /\ w_changes' = <<>>
    /\ w_next' = 0
    /\ w_pre' = EmptyMap
    /\ r_reads' = <<>>
    /\ UNCHANGED data

\* a get of the reading thread while the other thread is inside apply_batch
store_get(key) ==
    /\ w_next # 0
    /\ Len(r_reads) < MaxReads
    /\ r_reads' = Append(r_reads, <<key, Lookup(data, key)>>)
    /\ UNCHANGED <<data, version, history, w_changes, w_next, w_pre>>

(***************************************************************************)
(* Persistent state store                                                  *)
(***************************************************************************)
\* the backend steps of apply_batch that can fail, in the order they run
BackendSteps == <<"state", "version", "diff", "flush">>

\* step `name` has run when the call fails in step `failed` ("none": no failure)
StepDone(name, failed) ==
    \/ failed = "none"
    \/ \E i, j \in 1..Len(BackendSteps) :
          /\ BackendSteps[i] = name
          /\ BackendSteps[j] = failed
          /\ i < j

persistent_apply_batch(changes, failed) ==
    LET old_version == ps_version
        new_version == ps_version + 1
        batch_diff == DiffOfChanges(StateDiffNew(old_version, new_version),
                                    changes)
    IN  /\ ps_version < MaxStoreVersion
        /\ ps_state' = IF StepDone("state", failed)
                       THEN ApplyChanges(ps_state, changes) ELSE ps_state
        /\ ps_meta' = IF StepDone("version", failed) THEN new_version ELSE ps_meta
        /\ ps_history' = IF StepDone("diff", failed)
                         THEN MapInsert(ps_history, old_version, batch_diff)
                         ELSE ps_history
        /\ ps_version' = IF failed = "none" THEN new_version ELSE ps_version
        /\ ps_last' = [result |-> IF failed = "none" THEN "Ok" ELSE "Err",
                       failed |-> failed]

\* the largest balance and nonce an account of the runtime can hold
RuntimeMaxBalance == NumAddresses * MaxGenesisBalance

AccountCode(a, account) ==
    ((a * (RuntimeMaxBalance + 1) + account.balance) * (MaxSubmits + 1))
        + account.nonce

AccountCodeRadix ==
    (NumAddresses + 1) * (RuntimeMaxBalance + 1) * (MaxSubmits + 1)

\* hash(serialize(changes)): an injective code of the list, never Hash::ZERO
RECURSIVE ChangesCode(_)
ChangesCode(changes) ==
    IF changes = <<>> THEN 1
    ELSE ChangesCode(Tail(changes)) * AccountCodeRadix
         + AccountCode(Head(changes)[1], Head(changes)[2])

ChangesHash(changes) == 2 * ChangesCode(changes) + 1

\* compute_state_root: Hash::ZERO for no entries, else a code of the entries
\* in key order
RECURSIVE EntriesCode(_, _)
EntriesCode(d, keys) ==
    IF keys = {} THEN 1
    ELSE LET a == CHOOSE x \in keys : \A y \in keys : x <= y
         IN  EntriesCode(d, keys \ {a}) * AccountCodeRadix + AccountCode(a, d[a])

compute_state_root(d) ==
    IF d = EmptyMap THEN ZeroRoot ELSE 2 * EntriesCode(d, DOMAIN d)

\* RelyoTransactionValidator::validate against the committed state
validate(tx, sig_ok, expired, d) ==
    IF tx.amount > AmountMax THEN "InvalidTransaction"
    ELSE IF tx.fee < MinFee THEN "FeeTooLow"
    ELSE IF expired THEN "TransactionExpired"
    ELSE IF ~sig_ok THEN "InvalidSignature"
    ELSE IF tx.nonce # StoreGetAccount(d, tx.from).nonce THEN "InvalidNonce"
    ELSE IF StoreGetAccount(d, tx.from).balance < total_cost(tx)
         THEN "InsufficientBalance"
    ELSE "Ok"

\* the mempool after add has inserted tx
AddedTransactions(txs, tx, t) == MapInsert(txs, TxId(tx), MempoolEntryNew(tx, t))

AddedBySender(bs, tx) ==
    MapInsert(bs, tx.from,
              (IF tx.from \in DOMAIN bs THEN bs[tx.from] ELSE {}) \cup {TxId(tx)})

AddedByPriority(bp, tx) == bp \cup {<<tx.fee % PriorityModulus, TxId(tx)>>}

\* (variant: a rejected transaction is dropped from the pool's indexes)
SubmitOnlyDropping(tx, outcome) ==
    /\ IF outcome = "added"
       THEN /\ transactions' = AddedTransactions(transactions, tx, now)
            /\ by_sender' = AddedBySender(by_sender, tx)
            /\ by_priority' = AddedByPriority(by_priority, tx)
       ELSE /\ transactions' = RemoveAllFromTransactions(transactions, {TxId(tx)})
            /\ by_sender' = RemoveAllFromSender(by_sender, transactions, {TxId(tx)})
            /\ by_priority' = RemoveAllFromPriority(by_priority, transactions,
                                                    {TxId(tx)})
    /\ UNCHANGED <<data, version, history, pending_changes, burned, proposals,
                   by_version, vote_collections, finalized_version,
                   finalized_root, certificates, created,
                   rt_state_version, rt_state_root>>

\* submit_transaction of a node that is no validator: validate and add
SubmitOnly(tx, outcome) ==
    /\ IF outcome = "added"
       THEN /\ transactions' = AddedTransactions(transactions, tx, now)
            /\ by_sender' = AddedBySender(by_sender, tx)
            /\ by_priority' = AddedByPriority(by_priority, tx)
       ELSE UNCHANGED <<transactions, by_sender, by_priority>>
    /\ UNCHANGED <<data, version, history, pending_changes, burned, proposals,
                   by_version, vote_collections, finalized_version,
                   finalized_root, certificates, created,
                   rt_state_version, rt_state_root>>

\* try_propose_block, entered with the transaction in the mempool
try_propose_block(txs, bs, bp) ==
    \E batch \in get_executable(txs, ExecutableLimit) :
        LET acc == ExecuteBatch(batch, 1, txs, data, fee_burn_percent,
                       [pending |-> pending_changes, burned |-> burned,
                        changes |-> <<>>, tx_ids |-> <<>>, failed |-> {}])
            ok_ids == {acc.tx_ids[k] : k \in 1..Len(acc.tx_ids)}
            txs1 == RemoveAllFromTransactions(txs, acc.failed)
            bs1 == RemoveAllFromSender(bs, txs, acc.failed)
            bp1 == RemoveAllFromPriority(bp, txs, acc.failed)
            new_root == ChangesHash(acc.changes)
            st == CreateProposal(EngineState, local_validator, new_root)
        IN  IF Len(batch) = 0 \/ acc.changes = <<>>
            THEN /\ transactions' = txs1
                 /\ by_sender' = bs1
                 /\ by_priority' = bp1
                 /\ pending_changes' = acc.pending
                 /\ burned' = acc.burned
                 /\ UNCHANGED <<data, version, history, proposals, by_version,
                                vote_collections, finalized_version,
                                finalized_root, certificates, created,
                                rt_state_version, rt_state_root>>
            ELSE /\ SetEngine(st)
                 /\ created' = created \cup
                        {<<local_validator, finalized_version + 1, new_root>>}
                 /\ data' = CommitData(ApplyChanges(data, acc.changes),
                                       acc.pending)
                 /\ version' = version + 1
                 /\ history' = Append(history,
                        DiffOfChanges(StateDiffNew(version, version + 1),
                                      acc.changes))
                 /\ pending_changes' = EmptyMap
                 /\ burned' = acc.burned
                 /\ rt_state_version' = version + 1
                 /\ rt_state_root' = new_root
                 /\ transactions' = RemoveAllFromTransactions(txs1, ok_ids)
                 /\ by_sender' = RemoveAllFromSender(bs1, txs1, ok_ids)
                 /\ by_priority' = RemoveAllFromPriority(bp1, txs1, ok_ids)

\* what submit_transaction returns: the error of validate, the error for a
\* transaction the mempool did not add, else Ok (create_proposal has a local
\* validator whenever the node is one, the memory store's apply_batch and the
\* commit on it return Ok); "none": the call does not return
SubmitResult(tx, sig_ok, expired) ==
    LET outcome == AddOutcome(transactions, by_sender, by_priority,
                              max_size, max_per_sender, tx)
    IN  IF validate(tx, sig_ok, expired, data) # "Ok" THEN "Err"
        ELSE IF outcome = "blocked" THEN "none"
        ELSE IF outcome # "added" THEN "Err"
        ELSE "Ok"

submit_transaction(tx, sig_ok, expired) ==
    LET outcome == AddOutcome(transactions, by_sender, by_priority,
                              max_size, max_per_sender, tx)
    IN  /\ rt_submits < MaxSubmits
        /\ ~mempool_blocked
        /\ rt_submits' = rt_submits + 1
        /\ rt_last' = [result |-> SubmitResult(tx, sig_ok, expired)]
        /\ IF validate(tx, sig_ok, expired, data) # "Ok"
           THEN UNCHANGED <<data, version, history, pending_changes, burned,
                            transactions, by_sender, by_priority,
                            mempool_blocked, proposals, by_version,
                            vote_collections, finalized_version,
                            finalized_root, certificates, created,
                            rt_state_version, rt_state_root>>
           ELSE /\ mempool_blocked' = (outcome = "blocked")
                /\ IF outcome = "added" /\ rt_is_validator
                   THEN try_propose_block(
                            AddedTransactions(transactions, tx, now),
                            AddedBySender(by_sender, tx),
                            AddedByPriority(by_priority, tx))
                   ELSE SubmitOnly(tx, outcome)
        /\ UNCHANGED <<total_supply, fee_burn_percent, ledger_last, exec_ok,
                       exec_count, genesis_sum, max_size, max_per_sender, now,
                       mempool_last, validators, active_count, local_validator,
                       rt_is_validator, networkVars, eventVars, writerVars, threadVars, store_snapshots, store_direct,
                       persistentVars, executableVars, concurrentVars>>

\* the genesis allocations: a balance for each address of a non-empty set
GenesisAllocations ==
    UNION {[S -> 0..MaxGenesisBalance] : S \in (SUBSET Addresses) \ {{}}}

RECURSIVE SumAllocations(_, _)
SumAllocations(alloc, S) ==
    IF S = {} THEN 0
    ELSE LET a == CHOOSE x \in S : TRUE
         IN  alloc[a] + SumAllocations(alloc, S \ {a})

\* a node with no runtime around the component
InitNoRuntime ==
    /\ rt_is_validator = FALSE
    /\ rt_state_version = 0
    /\ rt_state_root = ZeroRoot
    /\ rt_submits = 0
    /\ rt_last = [result |-> "none"]

\* NodeRuntime::new followed by initialize_genesis
InitRuntimeWith(validator_node, alloc, percent) ==
    /\ data = [a \in DOMAIN alloc |-> AccountNew(alloc[a])]
    /\ version = 0
    /\ pending_changes = EmptyMap
    /\ total_supply = SumAllocations(alloc, DOMAIN alloc)
    /\ burned = 0
    /\ fee_burn_percent = percent
    /\ ledger_last = NoLast
    /\ exec_ok = [a \in Addresses |-> 0]
    /\ exec_count = 0
    /\ genesis_sum = SumAllocations(alloc, DOMAIN alloc)
    /\ InitMempoolWith(RuntimeMaxSize, RuntimeMaxPerSender)
    /\ InitConsensusWith(
           IF validator_node THEN (RuntimeNode :> [active |-> TRUE]) ELSE EmptyMap,
           IF validator_node THEN RuntimeNode ELSE NoNode)
    /\ rt_is_validator = validator_node
    /\ rt_state_version = 0
    /\ rt_state_root = compute_state_root(data)
    /\ rt_submits = 0
    /\ rt_last = [result |-> "none"]
    /\ InitNoExecutable
    /\ InitNoPersistent
    /\ InitStoreLog
    /\ InitNoThreads
    /\ InitNoNetwork
    /\ InitNoEvents
    /\ InitNoWriters
    /\ InitNoMempoolThreads

(***************************************************************************)
(* Mempool under concurrent calls: a call is the sequence of its lock      *)
(* acquisitions, releases and the accesses made between them.              *)
(***************************************************************************)
Threads == 1..NumThreads

\* the three RwLocks, numbered in the documented order
LockRank == [transactions |-> 1, by_sender |-> 2, by_priority |-> 3]

Acquire(lock, mode) == <<"acquire", lock, mode>>

Release(lock) == <<"release", lock>>

\* Mempool::remove, up to its lookup of the id under the transactions lock
RemoveProgram(id) == <<Acquire("transactions", "write"), <<"remove_entry", id>>>>

\* the rest of remove for a found entry: both other indexes, then the guards
\* go out of scope
RemoveFound(entry, id) ==
    <<Acquire("by_sender", "write"), <<"remove_sender", entry.tx.from, id>>,
      Acquire("by_priority", "write"), <<"remove_priority", entry.priority, id>>,
      Release("by_priority"), Release("by_sender"), Release("transactions")>>

\* Mempool::add, up to its checks under the transactions lock
AddProgram(tx) == <<Acquire("transactions", "write"), <<"add_check", tx>>>>

\* add from the per-sender check on
AddSenderCheck(tx) == <<Acquire("by_sender", "read"), <<"sender_check", tx>>>>

AddInsert(tx) ==
    <<<<"insert_entry", tx>>,
      Acquire("by_sender", "write"), <<"insert_sender", tx>>, Release("by_sender"),
      Acquire("by_priority", "write"), <<"insert_priority", tx>>,
      Release("by_priority"), Release("transactions")>>

GetBySenderProgram ==
    <<Acquire("by_sender", "read"), Acquire("transactions", "read"), <<"read">>,
      Release("transactions"), Release("by_sender")>>

GetHighestPriorityProgram ==
    <<Acquire("by_priority", "read"), Acquire("transactions", "read"), <<"read">>,
      Release("transactions"), Release("by_priority")>>

GetExecutableProgram ==
    <<Acquire("transactions", "read"), Acquire("by_sender", "read"), <<"read">>,
      Release("by_sender"), Release("transactions")>>

RemoveExpiredProgram(expiry_seconds) ==
    <<Acquire("transactions", "read"), <<"collect_expired", expiry_seconds>>>>

ClearProgram ==
    <<Acquire("transactions", "write"), <<"clear_transactions">>,
      Release("transactions"),
      Acquire("by_sender", "write"), <<"clear_by_sender">>, Release("by_sender"),
      Acquire("by_priority", "write"), <<"clear_by_priority">>,
      Release("by_priority")>>

\* remove called once for each id of the list
RECURSIVE RemoveEach(_)
RemoveEach(ids) ==
    IF ids = <<>> THEN <<>> ELSE RemoveProgram(Head(ids)) \o RemoveEach(Tail(ids))

\* parking_lot RwLock: a writer needs the lock free, a reader needs it free of
\* a writer; a thread's own guards count like any other
HoldsLock(t, lock, mode) ==
    \E i \in 1..Len(th_held[t]) : th_held[t][i] = <<lock, mode>>

CanAcquire(lock, mode) ==
    /\ \A u \in Threads : ~HoldsLock(u, lock, "write")
    /\ mode = "write" => \A u \in Threads : ~HoldsLock(u, lock, "read")

\* the guards of thread t without its guard of `lock`
Unheld(held, lock) == SelectSeq(held, LAMBDA g : g[1] # lock)

\* the steps that follow step `step` of a call, for each way it can go on
Continuations(step) ==
    CASE step[1] = "add_check" ->
            IF TxId(step[2]) \in DOMAIN transactions
            THEN {<<Release("transactions")>>}
            ELSE IF Cardinality(DOMAIN transactions) >= max_size
            THEN {<<Acquire("by_priority", "write"), <<"evict_pick", step[2]>>>>}
            ELSE {AddSenderCheck(step[2])}
      [] step[1] = "evict_pick" ->
            IF by_priority # {}
            THEN {<<Release("by_priority")>> \o
                  RemoveProgram(FirstKey(by_priority)[2]) \o
                  AddSenderCheck(step[2])}
            ELSE {<<Release("by_priority"), Release("transactions")>>}
      [] step[1] = "sender_check" ->
            IF SenderCount(by_sender, step[2].from) >= max_per_sender
            THEN {<<Release("by_sender"), Release("transactions")>>}
            ELSE {<<Release("by_sender")>> \o AddInsert(step[2])}
      [] step[1] = "remove_entry" ->
            IF step[2] \in DOMAIN transactions
            THEN {RemoveFound(transactions[step[2]], step[2])}
            ELSE {<<Release("transactions")>>}
      [] step[1] = "collect_expired" ->
            {<<Release("transactions")>> \o RemoveEach(ids) :
                ids \in Orderings(Expired(transactions, now, step[2]))}
      [] OTHER -> {<<>>}

\* what a step does to the three indexes
TransactionsAfter(step) ==
    CASE step[1] = "insert_entry" ->
            MapInsert(transactions, TxId(step[2]), MempoolEntryNew(step[2], now))
      [] step[1] = "remove_entry" -> MapRemove(transactions, step[2])
      [] step[1] = "clear_transactions" -> EmptyMap
      [] OTHER -> transactions

BySenderAfter(step) ==
    CASE step[1] = "insert_sender" -> AddedBySender(by_sender, step[2])
      [] step[1] = "remove_sender" -> RemoveFromSender(by_sender, step[2], step[3])
      [] step[1] = "clear_by_sender" -> EmptyMap
      [] OTHER -> by_sender

ByPriorityAfter(step) ==
    CASE step[1] = "insert_priority" -> AddedByPriority(by_priority, step[2])
      [] step[1] = "remove_priority" -> by_priority \ {<<step[2], step[3]>>}
      [] step[1] = "clear_by_priority" -> {}
      [] OTHER -> by_priority

\* a thread enters a call
thread_call(t, program) ==
    /\ th_pc[t] = <<>>
    /\ th_pc' = [th_pc EXCEPT ![t] = program]
    /\ UNCHANGED <<transactions, by_sender, by_priority, th_held>>

thread_add(t, tx) == thread_call(t, AddProgram(tx))

thread_remove(t, id) == thread_call(t, RemoveProgram(id))

thread_get_by_sender(t) == thread_call(t, GetBySenderProgram)

thread_get_highest_priority(t) == thread_call(t, GetHighestPriorityProgram)

thread_get_executable(t) == thread_call(t, GetExecutableProgram)

thread_remove_expired(t, expiry_seconds) ==
    thread_call(t, RemoveExpiredProgram(expiry_seconds))

thread_clear(t) == thread_call(t, ClearProgram)

\* a thread takes the next step of its call
thread_step(t) ==
    /\ th_pc[t] # <<>>
    /\ LET step == Head(th_pc[t])
       IN  IF step[1] = "acquire"
           THEN /\ CanAcquire(step[2], step[3])
                /\ th_held' = [th_held EXCEPT ![t] = Append(@, <<step[2], step[3]>>)]
                /\ th_pc' = [th_pc EXCEPT ![t] = Tail(@)]
                /\ UNCHANGED <<transactions, by_sender, by_priority>>
           ELSE IF step[1] = "release"
           THEN /\ th_held' = [th_held EXCEPT ![t] = Unheld(@, step[2])]
                /\ th_pc' = [th_pc EXCEPT ![t] = Tail(@)]
                /\ UNCHANGED <<transactions, by_sender, by_priority>>
           ELSE /\ \E next \in Continuations(step) :
                       th_pc' = [th_pc EXCEPT ![t] = next \o Tail(@)]
                /\ transactions' = TransactionsAfter(step)
                /\ by_sender' = BySenderAfter(step)
                /\ by_priority' = ByPriorityAfter(step)
                /\ UNCHANGED th_held

(***************************************************************************)
(* Memory state store: apply_batch called by several threads               *)
(***************************************************************************)
\* a thread outside apply_batch
WriterIdle == [pc |-> "idle", old_version |-> 0, changes |-> <<>>, next |-> 0]

CallsBegun ==
    Len(ab_returned) + Cardinality({t \in Threads : ab_thread[t].pc # "idle"})

\* let old_version = *self.version.read();
batch_read_version(t, changes) ==
    /\ ab_thread[t].pc = "idle"
    /\ CallsBegun < MaxApplyCalls
    /\ ab_thread' = [ab_thread EXCEPT ![t] =
                        [pc |-> "changes", old_version |-> version,
                         changes |-> changes, next |-> 1]]
    /\ UNCHANGED <<data, version, history, ab_returned>>

\* one turn of the loop over the changes
batch_change(t) ==
    /\ ab_thread[t].pc = "changes"
    /\ ab_thread[t].next <= Len(ab_thread[t].changes)
    /\ data' = ApplyChanges(data, <<ab_thread[t].changes[ab_thread[t].next]>>)
    /\ ab_thread' = [ab_thread EXCEPT ![t].next = @ + 1]
    /\ UNCHANGED <<version, history, ab_returned>>

\* *self.version.write() = new_version;
batch_write_version(t) ==
    /\ ab_thread[t].pc = "changes"
    /\ ab_thread[t].next > Len(ab_thread[t].changes)
    /\ version' = ab_thread[t].old_version + 1
    /\ ab_thread' = [ab_thread EXCEPT ![t].pc = "history"]
    /\ UNCHANGED <<data, history, ab_returned>>

\* self.history.write().push(diff); Ok(new_version)
batch_push_diff(t) ==
    /\ ab_thread[t].pc = "history"
    /\ history' = Append(history,
                     DiffOfChanges(StateDiffNew(ab_thread[t].old_version,
                                                ab_thread[t].old_version + 1),
                                   ab_thread[t].changes))
    /\ ab_returned' = Append(ab_returned, ab_thread[t].old_version + 1)
    /\ ab_thread' = [ab_thread EXCEPT ![t] = WriterIdle]
    /\ UNCHANGED <<data, version>>

(***************************************************************************)
(* Several nodes, each running its own engine on the same validator set;   *)
(* what a node broadcasts reaches the other nodes in any order.            *)
(***************************************************************************)
NetNodes == 1..NumNetNodes

\* the nodes of the running network
NodeIds == DOMAIN net_nodes

NodeCount == Cardinality(NodeIds)

\* the static validator set the nodes share: every node an active validator
NetValidators == [n \in NodeIds |-> [active |-> TRUE]]

\* RainsonetConsensus::new
NewEngine ==
    [proposals |-> EmptyMap, by_version |-> EmptyMap,
     vote_collections |-> EmptyMap, finalized_version |-> 0,
     finalized_root |-> ZeroRoot, certificates |-> <<>>]

\* the engine of node n as a call finds it
NodeState(n) ==
    [proposals |-> net_nodes[n].proposals,
     by_version |-> net_nodes[n].by_version,
     vote_collections |-> net_nodes[n].vote_collections,
     finalized_version |-> net_nodes[n].finalized_version,
     finalized_root |-> net_nodes[n].finalized_root,
     certificates |-> net_nodes[n].certificates,
     result |-> "Ok", emitted |-> <<>>]

\* the engine of node n takes the values of st
SetNode(n, st) ==
    net_nodes' = [net_nodes EXCEPT ![n] =
        [proposals |-> st.proposals, by_version |-> st.by_version,
         vote_collections |-> st.vote_collections,
         finalized_version |-> st.finalized_version,
         finalized_root |-> st.finalized_root,
         certificates |-> st.certificates]]

ApproveVote(n, id) == [proposal_id |-> id, voter |-> n, approve |-> TRUE]

\* node n proposes version 1 (once) and broadcasts the proposal
node_create_proposal(n, root) ==
    LET st == CreateProposal(NodeState(n), n, root)
    IN  /\ net_nodes[n].finalized_version = 0
        /\ \A p \in net_proposals : p.proposer # n
        /\ SetNode(n, st)
        /\ net_proposals' = net_proposals \cup
               {[proposer |-> n, state_version |-> 1, new_root |-> root]}
        /\ UNCHANGED <<net_votes, net_seen>>

\* the proposer votes for its own proposal and broadcasts the vote
node_vote_own(n) ==
    \E p \in net_proposals :
        LET id == ProposalId(p)
            st == VoteOnProposal(NodeState(n), NetValidators, NodeCount,
                                 n, id, TRUE)
        IN  /\ p.proposer = n
            /\ ApproveVote(n, id) \notin net_votes
            /\ SetNode(n, st)
            /\ net_votes' = net_votes \cup {ApproveVote(n, id)}
            /\ UNCHANGED <<net_proposals, net_seen>>

\* a broadcast proposal reaches node n; the auto-vote, if it was cast, is
\* broadcast
node_receive_proposal(n, p) ==
    LET st == ReceiveProposal(NodeState(n), NetValidators, NodeCount, n, p, TRUE)
    IN  /\ p \in net_proposals
        /\ p.proposer # n
        /\ p \notin net_seen[n]
        /\ SetNode(n, st)
        /\ net_seen' = [net_seen EXCEPT ![n] = @ \cup {p}]
        /\ net_votes' = IF st.result = "Ok"
                        THEN net_votes \cup {ApproveVote(n, ProposalId(p))}
                        ELSE net_votes
        /\ UNCHANGED net_proposals

\* a broadcast vote reaches node n
node_receive_vote(n, vote) ==
    /\ vote \in net_votes
    /\ vote.voter # n
    /\ vote \notin net_seen[n]
    /\ SetNode(n, ReceiveVote(NodeState(n), NetValidators, NodeCount, vote, TRUE))
    /\ net_seen' = [net_seen EXCEPT ![n] = @ \cup {vote}]
    /\ UNCHANGED <<net_proposals, net_votes>>

(***************************************************************************)
(* Specifications: one per component, each leaving the others as built.    *)
(***************************************************************************)
\* NodeRuntime::new builds the mempool with create_mempool(10000, 100)

\* a node that holds no validator key, with an empty validator set
InitNoConsensus == InitConsensusWith(EmptyMap, NoNode)

InitLedgerSpec ==
    /\ InitLedger
    /\ InitMempoolWith(RuntimeMaxSize, RuntimeMaxPerSender)
    /\ InitNoConsensus
    /\ InitNoRuntime
    /\ InitNoExecutable
    /\ InitNoPersistent
    /\ InitStoreLog
    /\ InitNoThreads
    /\ InitNoNetwork
    /\ InitNoEvents
    /\ InitNoWriters
    /\ InitNoMempoolThreads

\* a call on the ledger leaves the other components alone
LedgerCall(A) == A /\ UNCHANGED <<mempoolVars, consensusVars, runtimeVars,
        executableVars,
        persistentVars,
        storeVars,
        concurrentVars,
        threadVars,
        writerVars,
        eventVars,
        networkVars>>

NextLedger ==
    \/ \E a \in Addresses, b \in 0..MaxGenesisBalance :
           LedgerCall(set_balance(a, b))
    \/ \E tx \in Transactions : LedgerCall(execute_transaction(tx))
    \/ LedgerCall(commit)
    \/ LedgerCall(rollback)

SpecLedger == InitLedgerSpec /\ [][NextLedger]_vars

\* a ledger whose accounts hold balances at both ends of the 128-bit range
EdgeAmounts == {0, 1, AmountMax - 1, AmountMax}

EdgeTransactions ==
    [from : Addresses, to : Addresses, amount : EdgeAmounts,
     fee : EdgeAmounts, nonce : {0}]

InitEdgeLedger ==
    /\ \E balances \in [Addresses -> EdgeAmounts] :
           data = [a \in Addresses |-> AccountNew(balances[a])]
    /\ version = 0
    /\ pending_changes = EmptyMap
    /\ total_supply = 0
    /\ burned = 0
    /\ fee_burn_percent \in BurnPercents
    /\ ledger_last = NoLast
    /\ exec_ok = [a \in Addresses |-> 0]
    /\ exec_count = 0
    /\ genesis_sum = 0
    /\ InitMempoolWith(RuntimeMaxSize, RuntimeMaxPerSender)
    /\ InitNoConsensus
    /\ InitNoRuntime
    /\ InitNoExecutable
    /\ InitNoPersistent
    /\ InitStoreLog
    /\ InitNoThreads
    /\ InitNoNetwork
    /\ InitNoEvents
    /\ InitNoWriters
    /\ InitNoMempoolThreads

NextEdgeLedger ==
    \/ \E tx \in EdgeTransactions :
           exec_count < MaxEdgeExecs /\ LedgerCall(execute_transaction(tx))
    \/ LedgerCall(rollback)

SpecEdgeLedger == InitEdgeLedger /\ [][NextEdgeLedger]_vars

\* the transactions the concurrent callers submit
ThreadInputs == {tx \in MempoolInputs : tx.nonce = 0 /\ tx.fee >= MinFee}

InitMempoolThreads ==
    /\ \E size \in 1..MaxPoolSize, per_sender \in 1..MaxPerSender :
           InitMempoolWith(size, per_sender)
    /\ th_pc = [t \in Threads |-> <<>>]
    /\ th_held = [t \in Threads |-> <<>>]
    /\ InitLedger
    /\ fee_burn_percent = DefaultBurnPercent
    /\ InitNoConsensus
    /\ InitNoRuntime
    /\ InitNoExecutable
    /\ InitNoPersistent
    /\ InitStoreLog
    /\ InitNoThreads
    /\ InitNoNetwork
    /\ InitNoEvents
    /\ InitNoWriters

\* a step of a mempool caller leaves the configuration and the other
\* components alone
MempoolThreadStep(A) == A /\ UNCHANGED <<max_size, max_per_sender,
        mempool_blocked, now, mempool_last,
        ledgerVars, consensusVars, runtimeVars, executableVars,
        persistentVars, storeVars, concurrentVars,
        writerVars,
        eventVars,
        networkVars>>

NextMempoolThreads ==
    \/ \E t \in Threads, tx \in ThreadInputs : MempoolThreadStep(thread_add(t, tx))
    \/ \E t \in Threads, tx \in ThreadInputs :
           MempoolThreadStep(thread_remove(t, TxId(tx)))
    \/ \E t \in Threads : MempoolThreadStep(thread_get_by_sender(t))
    \/ \E t \in Threads : MempoolThreadStep(thread_get_highest_priority(t))
    \/ \E t \in Threads : MempoolThreadStep(thread_get_executable(t))
    \/ \E t \in Threads, e \in 0..MaxExpirySeconds :
           MempoolThreadStep(thread_remove_expired(t, e))
    \/ \E t \in Threads : MempoolThreadStep(thread_clear(t))
    \/ \E t \in Threads : MempoolThreadStep(thread_step(t))
    \/ Tick /\ UNCHANGED <<ledgerVars, consensusVars, runtimeVars, executableVars,
                         persistentVars, storeVars, concurrentVars, threadVars,
                         writerVars, eventVars,
                         networkVars>>

SpecMempoolThreads == InitMempoolThreads /\ [][NextMempoolThreads]_vars

InitMempool ==
    /\ \E size \in 0..MaxPoolSize, per_sender \in 0..MaxPerSender :
           InitMempoolWith(size, per_sender)
    /\ InitLedger
    /\ fee_burn_percent = DefaultBurnPercent
    /\ InitNoConsensus
    /\ InitNoRuntime
    /\ InitNoExecutable
    /\ InitNoPersistent
    /\ InitStoreLog
    /\ InitNoThreads
    /\ InitNoNetwork
    /\ InitNoEvents
    /\ InitNoWriters
    /\ InitNoMempoolThreads

\* a call on the mempool leaves the other components alone
MempoolCall(A) == A /\ UNCHANGED <<ledgerVars, consensusVars, runtimeVars,
        executableVars,
        persistentVars,
        storeVars,
        concurrentVars,
        threadVars,
        writerVars,
        eventVars,
        networkVars>>

NextMempool ==
    \/ \E tx \in MempoolInputs : MempoolCall(mempool_add(tx))
    \/ \E tx \in MempoolInputs : MempoolCall(mempool_remove(TxId(tx)))
    \/ \E e \in 0..MaxExpirySeconds : MempoolCall(remove_expired(e))
    \/ MempoolCall(mempool_clear)
    \/ MempoolCall(Tick)

SpecMempool == InitMempool /\ [][NextMempool]_vars

\* a mempool whose fees lie on both sides of 2^64
EdgeFees == {1, PriorityModulus - 1, PriorityModulus, PriorityModulus + 1}

EdgeMempoolInputs ==
    [from : Addresses, to : {1}, amount : {0}, fee : EdgeFees, nonce : {0}]

InitEdgeMempool ==
    /\ \E size \in 1..MaxEdgePool : InitMempoolWith(size, MaxEdgePool)
    /\ InitLedger
    /\ fee_burn_percent = DefaultBurnPercent
    /\ InitNoConsensus
    /\ InitNoRuntime
    /\ InitNoExecutable
    /\ InitNoPersistent
    /\ InitStoreLog
    /\ InitNoThreads
    /\ InitNoNetwork
    /\ InitNoEvents
    /\ InitNoWriters
    /\ InitNoMempoolThreads

NextEdgeMempool ==
    \/ \E tx \in EdgeMempoolInputs : MempoolCall(mempool_add(tx))
    \/ \E tx \in EdgeMempoolInputs : MempoolCall(mempool_remove(TxId(tx)))
    \/ MempoolCall(mempool_clear)

SpecEdgeMempool == InitEdgeMempool /\ [][NextEdgeMempool]_vars

InitConsensus ==
    /\ \E infos \in ValidatorInfos, local \in {NoNode, 1, NumNodes} :
           InitConsensusWith(infos, local)
    /\ InitLedger
    /\ fee_burn_percent = DefaultBurnPercent
    /\ InitMempoolWith(RuntimeMaxSize, RuntimeMaxPerSender)
    /\ InitNoRuntime
    /\ InitNoExecutable
    /\ InitNoPersistent
    /\ InitStoreLog
    /\ InitNoThreads
    /\ InitNoNetwork
    /\ InitNoEvents
    /\ InitNoWriters
    /\ InitNoMempoolThreads

\* a call on the engine leaves the other components alone
ConsensusCall(A) == A /\ UNCHANGED <<ledgerVars, mempoolVars, runtimeVars,
        executableVars,
        persistentVars,
        storeVars,
        concurrentVars,
        threadVars,
        writerVars,
        eventVars,
        networkVars>>

NextConsensus ==
    \/ \E r \in Roots : ConsensusCall(create_proposal(r))
    \/ \E p \in Proposals, sig_ok \in BOOLEAN :
           ConsensusCall(receive_proposal(p, sig_ok))
    \/ \E id \in VoteTargets, approve \in BOOLEAN :
           ConsensusCall(vote_on_proposal(id, approve))
    \/ \E vote \in Votes, sig_ok \in BOOLEAN :
           ConsensusCall(receive_vote(vote, sig_ok))

SpecConsensus == InitConsensus /\ [][NextConsensus]_vars

\* a validator set built by ValidatorSet::new and changed by any sequence of
\* add_validator and remove_validator calls
InitValidators ==
    /\ InitConsensusWith(EmptyMap, NoNode)
    /\ InitLedger
    /\ fee_burn_percent = DefaultBurnPercent
    /\ InitMempoolWith(RuntimeMaxSize, RuntimeMaxPerSender)
    /\ InitNoRuntime
    /\ InitNoExecutable
    /\ InitNoPersistent
    /\ InitStoreLog
    /\ InitNoThreads
    /\ InitNoNetwork
    /\ InitNoEvents
    /\ InitNoWriters
    /\ InitNoMempoolThreads

NextValidators ==
    \/ \E n \in Nodes, active \in BOOLEAN : ConsensusCall(add_validator(n, active))
    \/ \E n \in Nodes : ConsensusCall(remove_validator(n))

SpecValidators == InitValidators /\ [][NextValidators]_vars

\* an engine that runs for more versions than the cleanup window: node 1 is
\* the one validator and local, so its vote alone is the quorum
CleanupValidators == [n \in 1..1 |-> [active |-> TRUE]]

InitCleanup ==
    /\ InitConsensusWith(CleanupValidators, 1)
    /\ InitLedger
    /\ fee_burn_percent = DefaultBurnPercent
    /\ InitMempoolWith(RuntimeMaxSize, RuntimeMaxPerSender)
    /\ InitNoRuntime
    /\ InitNoExecutable
    /\ InitNoPersistent
    /\ InitStoreLog
    /\ InitNoThreads
    /\ InitNoNetwork
    /\ InitNoEvents
    /\ InitNoWriters
    /\ InitNoMempoolThreads

\* the proposal of node 1 for the next version
NextOwnId == <<1, finalized_version + 1, 1>>

\* node 1 proposes the next version
propose_next ==
    /\ finalized_version < MaxCleanupFinalized
    /\ NextOwnId \notin DOMAIN proposals
    /\ SetEngine(CreateProposal(EngineState, local_validator, 1))
    /\ UNCHANGED <<validators, active_count, local_validator, created>>

\* a second proposal of the validator for the next version, with another
\* root, arrives over the network (for one of the first MaxSharedVersion
\* versions); the local vote is cast for it at once
late_proposal ==
    /\ finalized_version < MaxSharedVersion
    /\ SetEngine(ReceiveProposal(EngineState, validators, active_count,
                                 local_validator,
                                 [proposer |-> 1,
                                  state_version |-> finalized_version + 1,
                                  new_root |-> 2], TRUE))
    /\ UNCHANGED <<validators, active_count, local_validator, created>>

NextCleanup ==
    \/ ConsensusCall(propose_next)
    \/ ConsensusCall(late_proposal)
    \/ ConsensusCall(vote_on_proposal(NextOwnId, TRUE))
    \/ ConsensusCall(cleanup)

SpecCleanup == InitCleanup /\ [][NextCleanup]_vars

\* an engine with an event channel: validators 1 and 2, node 1 local
EventValidators == [n \in 1..2 |-> [active |-> TRUE]]

InitEvents ==
    /\ InitConsensusWith(EventValidators, 1)
    /\ ev_channel = <<>>
    /\ ev_count = 0
    /\ ev_last = 0
    /\ InitLedger
    /\ fee_burn_percent = DefaultBurnPercent
    /\ InitMempoolWith(RuntimeMaxSize, RuntimeMaxPerSender)
    /\ InitNoRuntime
    /\ InitNoExecutable
    /\ InitNoPersistent
    /\ InitStoreLog
    /\ InitNoThreads
    /\ InitNoNetwork
    /\ InitNoWriters
    /\ InitNoMempoolThreads

\* a step of the engine or of the subscriber leaves the other components alone
EventStep(A) == A /\ UNCHANGED <<ledgerVars, mempoolVars, runtimeVars,
        executableVars, persistentVars, storeVars, concurrentVars, threadVars,
        writerVars,
        networkVars>>

EventVotes == {vote \in Votes : vote.voter \in DOMAIN EventValidators}

NextEvents ==
    \/ \E r \in Roots :
           /\ finalized_version < MaxVersion
           /\ MayTrack(<<local_validator, finalized_version + 1, r>>)
           /\ EventStep(engine_call(CreateProposal(EngineState, local_validator, r)))
    \/ \E p \in Proposals :
           /\ p.proposer \in DOMAIN EventValidators
           /\ MayTrack(ProposalId(p))
           /\ EventStep(engine_call(ReceiveProposal(EngineState, validators,
                                        active_count, local_validator, p, TRUE)))
    \/ \E id \in VoteTargets, approve \in BOOLEAN :
           EventStep(engine_call(VoteOnProposal(EngineState, validators,
                                     active_count, local_validator, id, approve)))
    \/ \E vote \in EventVotes :
           EventStep(engine_call(ReceiveVote(EngineState, validators,
                                             active_count, vote, TRUE)))
    \/ EventStep(subscriber_recv)

SpecEvents == InitEvents /\ [][NextEvents]_vars

InitNetwork ==
    /\ net_nodes = [n \in NetNodes |-> NewEngine]
    /\ net_proposals = {}
    /\ net_votes = {}
    /\ net_seen = [n \in NetNodes |-> {}]
    /\ InitConsensusWith(NetValidators, NoNode)
    /\ InitLedger
    /\ fee_burn_percent = DefaultBurnPercent
    /\ InitMempoolWith(RuntimeMaxSize, RuntimeMaxPerSender)
    /\ InitNoRuntime
    /\ InitNoExecutable
    /\ InitNoPersistent
    /\ InitStoreLog
    /\ InitNoThreads
    /\ InitNoWriters
    /\ InitNoMempoolThreads
    /\ InitNoEvents

\* a step of a node leaves the other components alone
NodeStep(A) == A /\ UNCHANGED <<ledgerVars, mempoolVars, consensusVars,
        runtimeVars, executableVars, persistentVars, storeVars, concurrentVars,
        threadVars, writerVars, eventVars>>

\* the votes and proposals in flight are delivered in any order
Deliveries ==
    \/ \E n \in NodeIds : NodeStep(node_vote_own(n))
    \/ \E n \in NodeIds, p \in net_proposals : NodeStep(node_receive_proposal(n, p))
    \/ \E n \in NodeIds, vote \in net_votes : NodeStep(node_receive_vote(n, vote))

NextNetwork ==
    \/ \E n \in NodeIds, root \in Roots : NodeStep(node_create_proposal(n, root))
    \/ Deliveries

SpecNetwork == InitNetwork /\ [][NextNetwork]_vars

\* one proposal in a network of NumQuorumNodes validators: node 1 proposes,
\* every validator votes, and every message in flight is delivered
QuorumNodes == 1..NumQuorumNodes

InitQuorum ==
    /\ net_nodes = [n \in QuorumNodes |-> NewEngine]
    /\ net_proposals = {}
    /\ net_votes = {}
    /\ net_seen = [n \in QuorumNodes |-> {}]
    /\ InitConsensusWith(NetValidators, NoNode)
    /\ InitLedger
    /\ fee_burn_percent = DefaultBurnPercent
    /\ InitMempoolWith(RuntimeMaxSize, RuntimeMaxPerSender)
    /\ InitNoRuntime
    /\ InitNoExecutable
    /\ InitNoPersistent
    /\ InitStoreLog
    /\ InitNoThreads
    /\ InitNoWriters
    /\ InitNoMempoolThreads
    /\ InitNoEvents

NextQuorum ==
    \/ \E root \in Roots : NodeStep(node_create_proposal(1, root))
    \/ Deliveries

\* the transport delivers every message and every validator gets to vote
SpecQuorum == InitQuorum /\ [][NextQuorum]_vars /\ WF_vars(NextQuorum)

InitRuntime ==
    \E validator_node \in BOOLEAN, alloc \in GenesisAllocations,
       percent \in BurnPercents :
        InitRuntimeWith(validator_node, alloc, percent)

NextRuntime ==
    \E tx \in Transactions, sig_ok \in BOOLEAN, expired \in BOOLEAN :
        submit_transaction(tx, sig_ok, expired)

SpecRuntime == InitRuntime /\ [][NextRuntime]_vars

InitExecutableSpec ==
    /\ \E S \in SubsetsUpTo(ExecutableInputs, MaxExecutablePool) :
           InitMempoolHolding(S)
    /\ InitLedger
    /\ fee_burn_percent = DefaultBurnPercent
    /\ InitNoConsensus
    /\ InitNoRuntime
    /\ InitNoExecutable
    /\ InitNoPersistent
    /\ InitStoreLog
    /\ InitNoThreads
    /\ InitNoNetwork
    /\ InitNoEvents
    /\ InitNoWriters
    /\ InitNoMempoolThreads

\* a query of the mempool leaves the other components alone
ExecutableCall(A) == A /\ UNCHANGED <<ledgerVars, consensusVars, runtimeVars,
        persistentVars,
        storeVars,
        concurrentVars,
        threadVars,
        writerVars,
        eventVars,
        networkVars>>

NextExecutable ==
    \E limit \in 0..MaxLimit : ExecutableCall(get_executable_call(limit))

SpecExecutable == InitExecutableSpec /\ [][NextExecutable]_vars

InitPersistentSpec ==
    /\ ps_state = EmptyMap
    /\ ps_meta = 0
    /\ ps_history = EmptyMap
    /\ ps_version = 0
    /\ ps_last = [result |-> "none", failed |-> "none"]
    /\ InitLedger
    /\ fee_burn_percent = DefaultBurnPercent
    /\ InitMempoolWith(RuntimeMaxSize, RuntimeMaxPerSender)
    /\ InitNoConsensus
    /\ InitNoRuntime
    /\ InitNoExecutable
    /\ InitStoreLog
    /\ InitNoThreads
    /\ InitNoNetwork
    /\ InitNoEvents
    /\ InitNoWriters
    /\ InitNoMempoolThreads

\* a call on the persistent store leaves the other components alone
PersistentCall(A) == A /\ UNCHANGED <<ledgerVars, mempoolVars, consensusVars,
        runtimeVars, executableVars,
        storeVars,
        concurrentVars,
        threadVars,
        writerVars,
        eventVars,
        networkVars>>

NextPersistent ==
    \/ \E changes \in Batches : PersistentCall(persistent_apply_batch(changes, "none"))
    \/ \E changes \in Batches, i \in 1..Len(BackendSteps) :
           PersistentCall(persistent_apply_batch(changes, BackendSteps[i]))

SpecPersistent == InitPersistentSpec /\ [][NextPersistent]_vars

\* the ledger fields around a store that is used on its own
InitBareStore ==
    /\ version = 0
    /\ pending_changes = EmptyMap
    /\ total_supply = 0
    /\ burned = 0
    /\ fee_burn_percent = DefaultBurnPercent
    /\ ledger_last = NoLast
    /\ exec_ok = [a \in Addresses |-> 0]
    /\ exec_count = 0
    /\ genesis_sum = 0
    /\ InitMempoolWith(RuntimeMaxSize, RuntimeMaxPerSender)
    /\ InitNoConsensus
    /\ InitNoRuntime
    /\ InitNoExecutable
    /\ InitNoPersistent

InitStore ==
    /\ data = EmptyMap
    /\ history = <<>>
    /\ store_snapshots = <<EmptyMap>>
    /\ store_direct = FALSE
    /\ InitBareStore
    /\ InitNoThreads
    /\ InitNoNetwork
    /\ InitNoEvents
    /\ InitNoWriters
    /\ InitNoMempoolThreads

\* a call on the store leaves the other components alone
StoreCall(A) == A /\ UNCHANGED <<pending_changes, total_supply, burned,
        fee_burn_percent, ledger_last, exec_ok, exec_count, genesis_sum,
        mempoolVars, consensusVars, runtimeVars, executableVars, persistentVars,
        concurrentVars,
        threadVars,
        writerVars,
        eventVars,
        networkVars>>

NextStore ==
    \/ \E changes \in Batches : StoreCall(store_apply_batch(changes))
    \/ \E key \in StoreKeys, value \in StoreValues : StoreCall(store_set(key, value))
    \/ \E key \in StoreKeys : StoreCall(store_delete(key))

SpecStore == InitStore /\ [][NextStore]_vars

InitConcurrent ==
    /\ data \in StoreStates
    /\ InitStoreLog
    /\ InitBareStore
    /\ InitNoThreads
    /\ InitNoNetwork
    /\ InitNoEvents
    /\ InitNoWriters
    /\ InitNoMempoolThreads

\* a step of a thread in the store leaves the other components alone
ThreadStep(A) == A /\ UNCHANGED <<pending_changes, total_supply, burned,
        fee_burn_percent, ledger_last, exec_ok, exec_count, genesis_sum,
        store_snapshots, store_direct,
        mempoolVars, consensusVars, runtimeVars, executableVars, persistentVars,
        threadVars,
        writerVars,
        eventVars,
        networkVars>>

NextConcurrent ==
    \/ \E changes \in Batches : ThreadStep(apply_batch_begin(changes))
    \/ ThreadStep(apply_batch_change)
    \/ ThreadStep(apply_batch_end)
    \/ \E key \in StoreKeys : ThreadStep(store_get(key))

SpecConcurrent == InitConcurrent /\ [][NextConcurrent]_vars

InitWriters ==
    /\ data \in StoreStates
    /\ InitStoreLog
    /\ InitBareStore
    /\ InitNoThreads
    /\ InitNoNetwork
    /\ InitNoEvents
    /\ InitNoMempoolThreads
    /\ ab_thread = [t \in Threads |-> WriterIdle]
    /\ ab_returned = <<>>

\* a step of a thread in apply_batch leaves the other components alone
WriterStep(A) == A /\ UNCHANGED <<pending_changes, total_supply, burned,
        fee_burn_percent, ledger_last, exec_ok, exec_count, genesis_sum,
        store_snapshots, store_direct,
        mempoolVars, consensusVars, runtimeVars, executableVars, persistentVars,
        concurrentVars, threadVars,
        eventVars,
        networkVars>>

NextWriters ==
    \/ \E t \in Threads, changes \in Batches :
           WriterStep(batch_read_version(t, changes))
    \/ \E t \in Threads : WriterStep(batch_change(t))
    \/ \E t \in Threads : WriterStep(batch_write_version(t))
    \/ \E t \in Threads : WriterStep(batch_push_diff(t))

SpecWriters == InitWriters /\ [][NextWriters]_vars

(***************************************************************************)
(* Ledger properties                                                       *)
(***************************************************************************)
RECURSIVE SumBalances(_, _)
SumBalances(d, S) ==
    IF S = {} THEN 0
    ELSE LET a == CHOOSE x \in S : TRUE
         IN  d[a].balance + SumBalances(d, S \ {a})

CommittedNonce(a) == StoreGetAccount(data, a).nonce

\* C1: after every committed batch, the committed balances plus total_burned
\* add up to the sum of the genesis allocations.
C1_MassConservation ==
    ledger_last.op = "commit" =>
        SumBalances(data, DOMAIN data) + burned = genesis_sum

\* C2: a successfully executed self-transfer leaves the account with
\* balance_before - fee and nonce_before + 1, in the pending buffer and,
\* after the commit that follows, in the committed store.
C2_SelfTransfer ==
    (/\ ledger_last.op \in {"execute", "commit"}
     /\ ledger_last.tx # NoTx
     /\ ledger_last.ok
     /\ ledger_last.tx.from = ledger_last.tx.to)
    => LET a == ledger_last.tx.from
           expected == [balance |-> ledger_last.sender.balance - ledger_last.tx.fee,
                        nonce |-> ledger_last.sender.nonce + 1]
       IN  /\ get_account(a) = expected
           /\ ledger_last.op = "commit" => StoreGetAccount(data, a) = expected

\* C3: a commit raises every address's committed nonce by exactly the number
\* of transactions of that sender that executed successfully in the batch,
\* and no step lowers a committed nonce.
C3_NonceMonotonicity ==
    [][\A a \in Addresses :
          /\ CommittedNonce(a)' >= CommittedNonce(a)
          /\ ledger_last'.op = "commit" =>
                 CommittedNonce(a)' = CommittedNonce(a) + exec_ok[a]]_vars

(***************************************************************************)
(* Properties of the node runtime (SpecRuntime)                            *)
(***************************************************************************)
\* C7: after every submit_transaction the KV store's version and the
\* runtime's state_version equal the engine's finalized_version, and every
\* batch applied to the KV store has a finality certificate.
C7_LockStepCommit ==
    rt_submits > 0 =>
        /\ version = finalized_version
        /\ rt_state_version = finalized_version
        /\ version <= Len(certificates)

(***************************************************************************)
(* Properties of the mempool (SpecMempool)                                 *)
(***************************************************************************)
MinPriority(txs) ==
    CHOOSE p \in {txs[id].priority : id \in DOMAIN txs} :
        \A id \in DOMAIN txs : p <= txs[id].priority

\* C9: the mempool holds one entry per transaction id, at most max_per_sender
\* entries of each sender and at most max_size entries in total, whatever
\* max_size >= 0 and max_per_sender >= 0 it was configured with.
C9_MempoolBounds ==
    /\ Cardinality(by_priority) = Cardinality(DOMAIN transactions)
    /\ \A id \in DOMAIN transactions : TxId(transactions[id].tx) = id
    /\ \A a \in Addresses :
           Cardinality(EntriesOfSender(transactions, a)) <= max_per_sender
    /\ Cardinality(DOMAIN transactions) <= max_size

\* C10: when the mempool holds max_size entries, add of a new transaction
\* whose priority is at most the minimum priority returns false and changes
\* nothing, and add of one with a higher priority inserts it and evicts
\* exactly the entry of lowest priority.
C10_AtCapacity ==
    (/\ mempool_last.op = "add"
     /\ mempool_last.before # EmptyMap
     /\ Cardinality(DOMAIN mempool_last.before) = max_size
     /\ TxId(mempool_last.tx) \notin DOMAIN mempool_last.before)
    => LET before == mempool_last.before
           id == TxId(mempool_last.tx)
           priority == MempoolEntryNew(mempool_last.tx, now).priority
       IN  IF priority <= MinPriority(before)
           THEN /\ mempool_last.result \in {"full", "sender"}
                /\ transactions = before
           ELSE /\ mempool_last.result = "added"
                /\ \E victim \in DOMAIN before :
                      /\ before[victim].priority = MinPriority(before)
                      /\ DOMAIN transactions =
                             ((DOMAIN before) \ {victim}) \cup {id}

(***************************************************************************)
(* Properties of the consensus engine (SpecConsensus)                      *)
(***************************************************************************)
ApproveVoters(votes) ==
    {votes[i].voter : i \in {j \in 1..Len(votes) : votes[j].approve}}

ApproveCount(votes) == Cardinality({j \in 1..Len(votes) : votes[j].approve})

\* C4: every certificate of the log holds at least required_votes approve
\* votes, each of them from a different active validator.
C4_CertificateSoundness ==
    \A i \in 1..Len(certificates) :
        LET votes == certificates[i].votes
        IN  /\ ApproveCount(votes) >= required_votes(active_count)
            /\ Cardinality(ApproveVoters(votes)) = ApproveCount(votes)
            /\ \A n \in ApproveVoters(votes) : is_validator(validators, n)

\* a certificate of four active validators that also holds a reject vote
C4_Witness ==
    /\ active_count = NumNodes
    /\ \E i \in 1..Len(certificates) :
          /\ \E j \in 1..Len(certificates[i].votes) :
                ~certificates[i].votes[j].approve
          /\ ApproveCount(certificates[i].votes) >= required_votes(active_count)

\* C5: finalized_version never decreases.
C5_VersionMonotonicity == [][finalized_version' >= finalized_version]_vars

\* C6: the number of certificates equals finalized_version, and no proposal
\* has two certificates (a vote that arrives after the quorum adds none).
C6_SequentialFinalization ==
    /\ Len(certificates) = finalized_version
    /\ \A i, j \in 1..Len(certificates) :
           certificates[i].proposal_id = certificates[j].proposal_id => i = j

\* the voters of a vote collection that approve
CollectionApprovers(c) == ApproveVoters(c.votes)

\* C8: with the three active validators 1, 2, 3, once validator 1 has
\* created a proposal for version 1 and received the approve votes of 2 and
\* 3, its finalized_version is 1 and the proposal's certificate holds the
\* votes of exactly 1, 2 and 3.
C8_ThreeValidatorQuorum ==
    \A id \in created :
        (/\ active_count = 3
         /\ \A n \in {1, 2, 3} : is_validator(validators, n)
         /\ local_validator = 1
         /\ id[2] = 1
         /\ DOMAIN proposals = {id}
         /\ id \in DOMAIN vote_collections
         /\ {2, 3} \subseteq CollectionApprovers(vote_collections[id])
         /\ \A j \in 1..Len(vote_collections[id].votes) :
               vote_collections[id].votes[j].approve)
        => /\ finalized_version = 1
           /\ \E i \in 1..Len(certificates) :
                 /\ certificates[i].proposal_id = id
                 /\ {certificates[i].votes[j].voter :
                        j \in 1..Len(certificates[i].votes)} = {1, 2, 3}

(***************************************************************************)
(* Properties of get_executable (SpecExecutable)                           *)
(***************************************************************************)
ResultSender(k) == transactions[executable_last.result[k]].tx.from

ResultNonce(k) == transactions[executable_last.result[k]].tx.nonce

\* the number of a sender's transactions in the last result
TakenFrom(a) ==
    Cardinality({k \in 1..Len(executable_last.result) : ResultSender(k) = a})

PoolSenders == {transactions[id].tx.from : id \in DOMAIN transactions}

\* C11: in the result of get_executable the transactions of each sender
\* appear in strictly ascending nonce order.
C11_PerSenderNonceOrder ==
    \A i, j \in 1..Len(executable_last.result) :
        (i < j /\ ResultSender(i) = ResultSender(j))
            => ResultNonce(i) < ResultNonce(j)

\* C12: the numbers of transactions taken from two senders differ by at most
\* 1 unless the sender with fewer has none left, and with k senders holding
\* at least m transactions each and limit = k * m exactly m are taken from
\* each.
C12_CrossSenderFairness ==
    /\ \A a, b \in PoolSenders :
           \/ TakenFrom(a) - TakenFrom(b) <= 1
           \/ TakenFrom(b) = Cardinality(EntriesOfSender(transactions, b))
    /\ \A m \in 1..MaxExecutablePool :
           (/\ PoolSenders # {}
            /\ executable_last.limit = Cardinality(PoolSenders) * m
            /\ \A a \in PoolSenders :
                  Cardinality(EntriesOfSender(transactions, a)) >= m)
           => \A a \in PoolSenders : TakenFrom(a) = m

\* two senders with two transactions each and different fees, limit 4
C12_Witness ==
    /\ Cardinality(PoolSenders) = 2
    /\ \A a \in PoolSenders : Cardinality(EntriesOfSender(transactions, a)) = 2
    /\ \E id1, id2 \in DOMAIN transactions :
          transactions[id1].priority < transactions[id2].priority
    /\ executable_last.limit = 4
    /\ Len(executable_last.result) = 4

(***************************************************************************)
(* Properties of the persistent store (SpecPersistent)                     *)
(***************************************************************************)
\* C13: apply_batch is all-or-nothing: a call that returns an error leaves
\* the state, the stored diffs, the persisted version and the in-memory
\* version as they were; a call that succeeds makes all changes visible at
\* version + 1 with the diff of the batch stored under the old version.
C13_ApplyBatchAllOrNothing ==
    [][\A changes \in Batches, failed \in {"none"} \cup Range(BackendSteps) :
          persistent_apply_batch(changes, failed) =>
              /\ failed # "none" =>
                     UNCHANGED <<ps_state, ps_history, ps_meta, ps_version>>
              /\ failed = "none" =>
                     /\ ps_state' = ApplyChanges(ps_state, changes)
                     /\ ps_version' = ps_version + 1
                     /\ ps_meta' = ps_version'
                     /\ ps_version \in DOMAIN ps_history'
                     /\ ps_history'[ps_version] =
                            DiffOfChanges(StateDiffNew(ps_version, ps_version'),
                                          changes)]_vars

(***************************************************************************)
(* Properties of the memory store (SpecConcurrent, SpecStore)              *)
(***************************************************************************)
\* read i got a value the batch writes, read j a value the batch replaces
Updated(reads, i, pre, post) ==
    /\ Lookup(pre, reads[i][1]) # Lookup(post, reads[i][1])
    /\ reads[i][2] = Lookup(post, reads[i][1])

NotUpdated(reads, j, pre, post) ==
    /\ Lookup(pre, reads[j][1]) # Lookup(post, reads[j][1])
    /\ reads[j][2] = Lookup(pre, reads[j][1])

\* C14: a thread that reads keys with get while another thread runs
\* apply_batch sees none of the batch's changes or all of them: it never
\* reads the batch's value of one key and then the value the batch replaces
\* of another key.
C14_BatchReadAtomicity ==
    w_next # 0 =>
        LET post == ApplyChanges(w_pre, w_changes)
        IN  \A i, j \in 1..Len(r_reads) :
                (i < j /\ r_reads[i][1] # r_reads[j][1])
                => ~(Updated(r_reads, i, w_pre, post) /\
                     NotUpdated(r_reads, j, w_pre, post))

(***************************************************************************)
(* Properties of the node runtime's error paths (SpecRuntime)              *)
(***************************************************************************)
\* C15: a submit_transaction call that returns an error leaves the mempool
\* (entries and both indexes), the ledger's pending buffer and the committed
\* account state exactly as before the call.
C15_FailedSubmitSideEffectFree ==
    [][(rt_submits' # rt_submits /\ rt_last'.result = "Err")
       => UNCHANGED <<transactions, by_sender, by_priority, pending_changes,
                      data, version>>]_vars

\* a submit was rejected while the pool holds a transaction
C15_Witness ==
    /\ rt_last.result = "Err"
    /\ rt_submits > 1
    /\ transactions # EmptyMap

(***************************************************************************)
(* Properties of the ledger's error paths (SpecLedger)                     *)
(***************************************************************************)
\* C16: execute_transaction fails with InvalidNonce when the transaction's
\* nonce differs from the sender's current nonce (the staged account first),
\* and with InsufficientBalance when the nonce matches and the sender's
\* balance is below amount + fee; a failed call leaves the pending buffer,
\* the burned counter and the committed store unchanged.
C16_RejectionLeavesNoTrace ==
    [][exec_count' # exec_count =>
          LET tx == ledger_last'.tx
              sender == IF tx.from \in DOMAIN pending_changes
                        THEN pending_changes[tx.from]
                        ELSE StoreGetAccount(data, tx.from)
          IN  /\ tx.nonce # sender.nonce => ledger_last'.result = "InvalidNonce"
              /\ (tx.nonce = sender.nonce /\ sender.balance < tx.amount + tx.fee)
                     => ledger_last'.result = "InsufficientBalance"
              /\ ledger_last'.result # "Ok" =>
                     UNCHANGED <<pending_changes, burned, data, version>>]_vars

\* a transaction of a sender with a staged account was refused for its
\* balance while the pending buffer and the burned counter were in use
C16_Witness ==
    /\ ledger_last.op = "execute"
    /\ ledger_last.result = "InsufficientBalance"
    /\ ledger_last.tx.from \in DOMAIN pending_changes
    /\ burned > 0

(***************************************************************************)
(* Idempotence (SpecConsensus, SpecMempool)                                *)
(***************************************************************************)
\* a vote of a validator with a signature that verifies
ValidVotes ==
    {vote \in Votes : /\ is_validator(validators, vote.voter)
                      /\ verify_signature(validators, vote.voter, TRUE)}

Delivered(st, vote) == ReceiveVote(st, validators, active_count, vote, TRUE)

\* the engine a call left behind, as the next call finds it
AfterCall(st) == [st EXCEPT !.result = "Ok", !.emitted = <<>>]

\* C17: delivering the same valid vote a second time returns Ok, emits no
\* event and leaves the vote collections, the certificates, finalized_version
\* (and every other field of the engine) as the first delivery left them.
C17_ReceiveVoteIdempotent ==
    \A vote \in ValidVotes :
        LET first == Delivered(EngineState, vote)
        IN  Delivered(AfterCall(first), vote) = AfterCall(first)

\* a valid vote whose first delivery is counted, emits events and finalizes
C17_Witness ==
    \E vote \in ValidVotes :
        LET first == Delivered(EngineState, vote)
        IN  /\ first.certificates # certificates
            /\ first.finalized_version # finalized_version
            /\ Len(first.emitted) = 2
            /\ first.vote_collections # vote_collections

\* C18: adding a transaction that is already in the mempool returns false
\* (as a duplicate) and leaves the three indexes unchanged, at any fill
\* level of the mempool.
C18_MempoolAddIdempotent ==
    [][\A tx \in MempoolInputs :
          (mempool_add(tx) /\ TxId(tx) \in DOMAIN transactions)
          => /\ mempool_last'.result = "duplicate"
             /\ ~mempool_blocked'
             /\ UNCHANGED <<transactions, by_sender, by_priority>>]_vars

\* a transaction was added again while the mempool was at its capacity
C18_Witness ==
    /\ mempool_last.op = "add"
    /\ mempool_last.result = "duplicate"
    /\ max_size > 0
    /\ Cardinality(DOMAIN transactions) >= max_size

(***************************************************************************)
(* Diff log of the memory store (SpecRuntime, SpecStore)                   *)
(***************************************************************************)
\* a diff applied to entry set d: the added map first and the removed list
\* after it, or the removed list first
ApplyAddedRemoved(d, df) ==
    [key \in (DOMAIN d \cup DOMAIN df.added) \ Range(df.removed) |->
        IF key \in DOMAIN df.added THEN df.added[key] ELSE d[key]]

ApplyRemovedAdded(d, df) ==
    [key \in (DOMAIN d \ Range(df.removed)) \cup DOMAIN df.added |->
        IF key \in DOMAIN df.added THEN df.added[key] ELSE d[key]]

\* the diff log hist replayed onto entry set d, from its k-th diff on
RECURSIVE ReplayAddedRemoved(_, _, _)
ReplayAddedRemoved(d, hist, k) ==
    IF k > Len(hist) THEN d
    ELSE ReplayAddedRemoved(ApplyAddedRemoved(d, hist[k]), hist, k + 1)

RECURSIVE ReplayRemovedAdded(_, _, _)
ReplayRemovedAdded(d, hist, k) ==
    IF k > Len(hist) THEN d
    ELSE ReplayRemovedAdded(ApplyRemovedAdded(d, hist[k]), hist, k + 1)

\* C19: replaying the store's diff log from version 0 onto an empty store
\* yields the store's entry set, and so the same compute_root (with either
\* order of applying a diff's two parts).
C19_ReplayDeterminism ==
    \/ /\ ReplayAddedRemoved(EmptyMap, history, 1) = data
       /\ compute_state_root(ReplayAddedRemoved(EmptyMap, history, 1)) =
              compute_state_root(data)
    \/ /\ ReplayRemovedAdded(EmptyMap, history, 1) = data
       /\ compute_state_root(ReplayRemovedAdded(EmptyMap, history, 1)) =
              compute_state_root(data)

\* C20: in a store written by apply_batch only, for every version from up
\* to the current one, diff(from) merges the diffs with target versions
\* from + 1 .. current, and its added map and removed list applied to the
\* entry set of version from (in one of the two orders) give the current
\* entry set.
C20_DiffReproducesState ==
    ~store_direct =>
        \A from \in 0..version :
            LET df == diff(history, from, version)
                base == store_snapshots[from + 1]
                merged == {k \in 1..Len(history) :
                              history[k].to_version \in (from + 1)..version}
            IN  /\ df = MergeHistory(StateDiffNew(from, version),
                                     [k \in 1..Len(history) |->
                                         IF k \in merged THEN history[k]
                                         ELSE StateDiffNew(from, from)],
                                     1, 0)
                /\ \/ ApplyAddedRemoved(base, df) = data
                   \/ ApplyRemovedAdded(base, df) = data

(***************************************************************************)
(* Arithmetic at the 128-bit limit (SpecEdgeLedger)                        *)
(***************************************************************************)
\* C21: a transaction for which amount + fee, fee * burn_percent or
\* recipient.balance + amount does not fit in 128 bits is rejected with an
\* error and no state change: the call neither succeeds (with a saturated
\* or wrapped value) nor panics.
C21_CheckedArithmetic ==
    [][exec_count' # exec_count =>
          LET tx == ledger_last'.tx
              recipient == IF tx.to \in DOMAIN pending_changes
                           THEN pending_changes[tx.to]
                           ELSE StoreGetAccount(data, tx.to)
          IN  (\/ tx.amount + tx.fee > AmountMax
               \/ tx.fee * fee_burn_percent > AmountMax
               \/ recipient.balance + tx.amount > AmountMax)
              => /\ ledger_last'.result \notin {"Ok", "Panic"}
                 /\ UNCHANGED <<pending_changes, burned, data>>]_vars

\* the guards a thread holds were taken in the order transactions, by_sender,
\* by_priority
LockOrderRespected ==
    \A t \in Threads : \A i, j \in 1..Len(th_held[t]) :
        i < j => LockRank[th_held[t][i][1]] < LockRank[th_held[t][j][1]]

\* thread t is at an acquisition that a guard of another thread u prevents
WaitsFor(t, u) ==
    /\ t # u
    /\ th_pc[t] # <<>>
    /\ Head(th_pc[t])[1] = "acquire"
    /\ LET lock == Head(th_pc[t])[2]
           mode == Head(th_pc[t])[3]
       IN  \/ HoldsLock(u, lock, "write")
           \/ mode = "write" /\ HoldsLock(u, lock, "read")

NoWaitCycle == \A t, u \in Threads : ~(WaitsFor(t, u) /\ WaitsFor(u, t))

\* C22: every mempool operation that holds more than one lock took them in
\* the order transactions, by_sender, by_priority, and no two concurrent
\* mempool calls wait for each other's locks
C22_LockOrder == LockOrderRespected /\ NoWaitCycle

\* C22 (consequence alone): no two concurrent mempool calls deadlock
C22_NoDeadlock == NoWaitCycle

\* no call is in flight
Quiescent == \A t \in Threads : th_pc[t] = <<>>

\* an id is in `transactions` exactly if it is in its sender's by_sender set
\* and (priority, id) is a key of by_priority
IndexesAgree ==
    /\ \A id \in DOMAIN transactions :
           /\ transactions[id].tx.from \in DOMAIN by_sender
           /\ id \in by_sender[transactions[id].tx.from]
           /\ <<transactions[id].priority, id>> \in by_priority
    /\ \A sender \in DOMAIN by_sender : \A id \in by_sender[sender] :
           id \in DOMAIN transactions /\ transactions[id].tx.from = sender
    /\ \A key \in by_priority :
           key[2] \in DOMAIN transactions /\ transactions[key[2]].priority = key[1]

\* C23: once every in-flight call has returned, whatever the interleaving of
\* the concurrent add, remove, remove_expired and clear calls was, the three
\* indexes describe the same set of transactions
C23_IndexLockstep == Quiescent => IndexesAgree

\* no apply_batch call is in flight
WritersIdle == \A t \in Threads : ab_thread[t].pc = "idle"

\* C24: the versions returned by the apply_batch calls are distinct; once the
\* calls have returned, the version is higher than at the start by the number
\* of calls, and the diff log holds exactly one diff from each version in
\* between
C24_VersionCounter ==
    /\ \A i, j \in 1..Len(ab_returned) :
           ab_returned[i] = ab_returned[j] => i = j
    /\ WritersIdle =>
           /\ version = Len(ab_returned)
           /\ Len(history) = Len(ab_returned)
           /\ \A v \in 0..(Len(ab_returned) - 1) :
                  \E k \in 1..Len(history) : history[k].from_version = v

\* an execute_transaction call follows an accepted one of the same sender,
\* with no commit or rollback in between
FollowsAccepted ==
    /\ ledger_last.op = "execute"
    /\ ledger_last.ok
    /\ exec_count' # exec_count
    /\ ledger_last'.tx.from = ledger_last.tx.from

\* what the pending buffer promises to such a following call
StagedIsRead ==
    /\ ledger_last'.tx.nonce = ledger_last.tx.nonce =>
           ledger_last'.result = "InvalidNonce"
    /\ ledger_last'.tx.nonce = ledger_last.tx.nonce + 1 =>
           /\ ledger_last'.sender.nonce = ledger_last.tx.nonce + 1
           /\ ledger_last'.result # "InvalidNonce"
    /\ ledger_last'.sender = pending_changes[ledger_last.tx.from]
    /\ data' = data

\* C25: a transaction that follows an accepted transaction of the same sender
\* before the commit is executed against the staged account: nonce n + 1 is
\* accepted by the nonce check, nonce n again fails with InvalidNonce, and the
\* committed store is left as it was
C25_PendingReadFirst == [][FollowsAccepted => StagedIsRead]_vars

\* C25, for transfers between two different accounts
C25_PendingReadFirstDistinct ==
    [][FollowsAccepted /\ ledger_last.tx.from # ledger_last.tx.to
          => StagedIsRead]_vars

\* the vote collection of proposal id in engine state st counts as rejected
Rejects(st, id) ==
    /\ id \in DOMAIN st.vote_collections
    /\ is_rejected(st.vote_collections[id], active_count,
                   required_votes(active_count))

RejectionEvents(st, id) ==
    {i \in 1..Len(st.emitted) : st.emitted[i] = <<"ProposalRejected", id>>}

\* C26: the vote that makes the votes against a pending proposal exceed
\* active_count - required_votes makes the engine emit ProposalRejected and
\* sets the proposal's status to Rejected; a later vote on the same proposal
\* does not emit ProposalRejected again
C26_RejectionMarksProposal ==
    \A vote \in ValidVotes :
        LET id == vote.proposal_id
            st == Delivered(EngineState, vote)
        IN  /\ (id \in DOMAIN proposals /\ ~Rejects(EngineState, id)
                   /\ Rejects(st, id))
               => /\ Cardinality(RejectionEvents(st, id)) = 1
                  /\ st.proposals[id].status = "Rejected"
            /\ Rejects(EngineState, id) => RejectionEvents(st, id) = {}

\* C26, the event alone: the vote that tips the count emits ProposalRejected
C26_RejectionEmitted ==
    \A vote \in ValidVotes :
        (~Rejects(EngineState, vote.proposal_id)
            /\ Rejects(Delivered(EngineState, vote), vote.proposal_id))
        => Cardinality(RejectionEvents(Delivered(EngineState, vote), vote.proposal_id)) = 1

\* C26, once per proposal alone
C26_RejectedOnce ==
    \A vote \in ValidVotes :
        Rejects(EngineState, vote.proposal_id)
        => RejectionEvents(Delivered(EngineState, vote), vote.proposal_id) = {}

\* the proposals finalize_proposal has run for
Finalized == {certificates[i].proposal_id : i \in 1..Len(certificates)}

\* C27: a proposal that finalize_proposal has run for has the status Approved
\* from then on, and get_finalized_changes returns the changes stored with it
C27_FinalizedIsApproved ==
    \A id \in Finalized \cap DOMAIN proposals :
        /\ proposals[id].status = "Approved"
        /\ get_finalized_changes(id) = <<proposals[id].state_changes>>

\* receive_proposal called with proposal p in the current state
Received(p, sig_ok) ==
    ReceiveProposal(EngineState, validators, active_count, local_validator,
                    p, sig_ok)

ProposerActive(p) == p.proposer \in DOMAIN validators /\ validators[p.proposer].active

\* the error of the first admission check that proposal p fails, "Ok" if none
AdmissionError(p, sig_ok) ==
    IF ~ProposerActive(p) THEN "NotAValidator"
    ELSE IF ~sig_ok THEN "InvalidSignature"
    ELSE IF p.state_version # finalized_version + 1 THEN "StateVersionMismatch"
    ELSE "Ok"

Expendable(tp) == tp.proposal.state_version <= finalized_version - CleanupWindow

\* C29: after cleanup with finalized_version > 10 no tracked proposal with a
\* version of finalized_version - 10 or less is left, whether or not it shares
\* its version with another proposal, and every proposal with a higher
\* version is kept; with finalized_version <= 10 cleanup drops nothing
C29_CleanupWindow ==
    [][cleanup =>
          IF finalized_version > CleanupWindow
          THEN /\ \A id \in DOMAIN proposals' : ~Expendable(proposals'[id])
               /\ \A id \in DOMAIN proposals :
                      ~Expendable(proposals[id]) =>
                          /\ id \in DOMAIN proposals'
                          /\ proposals'[id] = proposals[id]
          ELSE proposals' = proposals]_vars

\* C29, what is kept alone
C29_KeepsNewer ==
    [][cleanup =>
          \A id \in DOMAIN proposals :
              (finalized_version <= CleanupWindow \/ ~Expendable(proposals[id]))
              => /\ id \in DOMAIN proposals'
                 /\ proposals'[id] = proposals[id]]_vars

\* C29, with the window one version shorter: a proposal below
\* finalized_version - 10 that by_version names is dropped
C29_DropsNamedBelow ==
    [][cleanup /\ finalized_version > CleanupWindow =>
          \A v \in DOMAIN by_version :
              v < finalized_version - CleanupWindow =>
                  by_version[v] \notin DOMAIN proposals']_vars

\* the events in the channel are numbered in the order of their emission and
\* all come after the event the subscriber received last
ChannelInOrder ==
    /\ \A i, j \in 1..Len(ev_channel) :
           i < j => ev_channel[i].number < ev_channel[j].number
    /\ \A i \in 1..Len(ev_channel) : ev_last < ev_channel[i].number

\* a vote arrives at an engine whose channel is full
VoteArrives(vote) ==
    EventStep(engine_call(ReceiveVote(EngineState, validators, active_count,
                                      vote, TRUE)))

PoolFees == {transactions[id].tx.fee : id \in DOMAIN transactions}

Smaller(a, b) == IF a < b THEN a ELSE b

\* C31: get_highest_priority(limit) returns min(limit, size) transactions in
\* non-increasing fee order, none of them with a lower fee than a transaction
\* left out, and the entry the capacity eviction picks has the lowest fee of
\* the pool, for fees below and above 2^64
C31_PriorityIsRawFee ==
    /\ \A limit \in 0..MaxEdgePool :
           LET top == get_highest_priority(transactions, by_priority, limit)
           IN  /\ Len(top) = Smaller(limit, Cardinality(DOMAIN transactions))
               /\ \A i, j \in 1..Len(top) : i < j => top[i].fee >= top[j].fee
               /\ \A i \in 1..Len(top) : \A id \in DOMAIN transactions :
                      transactions[id].tx.fee > top[i].fee
                          => \E j \in 1..Len(top) : TxId(top[j]) = id
    /\ by_priority # {} =>
           \A f \in PoolFees :
               transactions[FirstKey(by_priority)[2]].tx.fee <= f

\* C31, for fees below 2^64 only
C31_PriorityOfSmallFees ==
    (\A f \in PoolFees : f < PriorityModulus) => C31_PriorityIsRawFee

\* C32: no two certificates, of the same node or of two nodes, are for the
\* same version and different proposals, and two nodes with the same
\* finalized_version have the same finalized_root
C32_Agreement ==
    \A n, m \in NodeIds :
        /\ \A i \in 1..Len(net_nodes[n].certificates),
              j \in 1..Len(net_nodes[m].certificates) :
               LET c == net_nodes[n].certificates[i]
                   d == net_nodes[m].certificates[j]
               IN  c.state_version = d.state_version
                       => c.proposal_id = d.proposal_id
        /\ net_nodes[n].finalized_version = net_nodes[m].finalized_version
               => net_nodes[n].finalized_root = net_nodes[m].finalized_root


\* C33: once a proposal for version 1 is out and every validator's approve
\* vote is delivered to every node, in any order, every node finalizes it
C33_QuorumLiveness ==
    (net_proposals # {}) ~> (\A n \in NodeIds : net_nodes[n].finalized_version = 1)

\* the distinct voters recorded in a vote collection
VotersOf(c) == {c.votes[i].voter : i \in 1..Len(c.votes)}

\* C34: no call makes the number of distinct voters recorded for a pending
\* proposal smaller, receiving the proposal again included
C34_VotesNeverLost ==
    [][\A id \in DOMAIN vote_collections \cap DOMAIN vote_collections' :
           (id \in DOMAIN proposals /\ proposals[id].status = "Pending")
               => Cardinality(VotersOf(vote_collections'[id]))
                      >= Cardinality(VotersOf(vote_collections[id]))]_vars

\* C35: a receive_proposal that returns an error has left the proposal
\* store and the vote collections as they were and has emitted no event
C35_ReceiveFailsCleanly ==
    \A p \in Proposals, sig_ok \in BOOLEAN :
        LET st == Received(p, sig_ok)
        IN  st.result # "Ok" =>
                /\ st.proposals = proposals
                /\ st.by_version = by_version
                /\ st.vote_collections = vote_collections
                /\ st.emitted = <<>>

\* C36: active_count is the number of validators of the set whose active
\* flag is true, so required_votes is computed from that number
C36_ActiveCountIsTrue ==
    /\ active_count = CountActive(validators)
    /\ required_votes(active_count) = required_votes(CountActive(validators))

\* C37: a rollback that discards a staged execution takes the burn of that
\* execution out of the burned counter, so that the counter holds the burns
\* of committed transactions only
C37_RollbackUndoesBurn ==
    [][(ledger_last'.op = "rollback" /\ ledger_last.op = "execute"
            /\ ledger_last.ok)
          => burned' + burn_amount(ledger_last.tx, fee_burn_percent) <= burned]_vars

\* the outcomes of add that return Ok(false)
ReturnsFalse == {"duplicate", "full", "sender"}

\* C38: an add that returned false has left transactions, by_sender and
\* by_priority as they were before the call
C38_RejectedAddChangesNothing ==
    [][(mempool_last'.op = "add" /\ mempool_last'.result \in ReturnsFalse)
          => UNCHANGED <<transactions, by_sender, by_priority>>]_vars

\* a pool that holds entries and has room refused a transaction of a sender
\* at its limit
C38_Witness ==
    /\ mempool_last.op = "add"
    /\ mempool_last.result = "sender"
    /\ transactions # EmptyMap
    /\ Cardinality(DOMAIN transactions) < max_size

\* C39: an add of a new transaction to a pool that holds max_size (> 0)
\* entries has returned: the call does not wait for a lock it holds itself
C39_AddTerminatesAtCapacity ==
    (/\ mempool_last.op = "add"
     /\ max_size > 0
     /\ Cardinality(DOMAIN mempool_last.before) >= max_size
     /\ TxId(mempool_last.tx) \notin DOMAIN mempool_last.before)
        => /\ mempool_last.result # "blocked"
           /\ ~mempool_blocked

\* C40: the StateFinalized event of every finalization is put into the
\* channel, full or not, where the subscriber will find it (an event that is
\* not queued when it is emitted is never received)
C40_NoFinalizationDropped ==
    [][Len(certificates') > Len(certificates)
          => \E i \in 1..Len(ev_channel') :
                 /\ ev_channel'[i].number > ev_count
                 /\ ev_channel'[i].event[1] = "StateFinalized"]_vars

=============================================================================
